---- MODULE Spec2Model ----
(***************************************************************************)
(* The broker client of src/src/mqtt_client.py as a state machine.         *)
(*                                                                         *)
(* Threads of the program, each with its own position variable:            *)
(*   appPc   the thread that calls connect() and disconnect()              *)
(*   netPc   the transport's network I/O thread, which runs the callbacks  *)
(*           _on_connect and _on_disconnect (and, inside _on_disconnect,   *)
(*           _attempt_reconnect with its backoff sleep)                    *)
(*   hbPc    the heartbeat thread started by _start_heartbeat              *)
(*   pollPc  a thread calling publish_sensor_data                          *)
(*                                                                         *)
(* The transport library (paho) is the environment: the results of its     *)
(* calls and the events it reports are chosen nondeterministically.  It    *)
(* runs callbacks on the network thread only while the I/O loop is         *)
(* running, delivers a connect acknowledgment only for an outstanding      *)
(* connect()/reconnect() and reports a disconnect only for a session that  *)
(* exists.                                                                 *)
(*                                                                         *)
(* create_mqtt_client() builds either an MQTTClient or a MockMQTTClient;   *)
(* mode records what this run exercises:                                   *)
(*   real    an MQTTClient                                                 *)
(*   mock    a MockMQTTClient, called directly                             *)
(*   app     the IoTSensorClient of src/src/main.py with its SensorManager *)
(*           (src/src/sensor_reader.py) and a MockMQTTClient as the broker *)
(*           client: start(), the poll loop _main_loop, stop()             *)
(*   sensor  SensorReading objects of src/src/sensor_reader.py on their own*)
(*   reader  one SensorReader of src/src/sensor_reader.py, read repeatedly *)
(***************************************************************************)
EXTENDS Integers, Sequences, FiniteSets, TLC

\* config['max_reconnect_attempts'] (mqtt_client.py:35; the default is 10)
max_reconnect_attempts == 5
\* how many times disconnect() is called in a run
MaxDisconnectCalls == 2
\* cap on the length of MockMQTTClient.published_messages (in app mode: a new poll
\* cycle begins only while the list is shorter than this)
MaxPublished == 3
\* number of sensors registered with the SensorManager
NumSensors == 3
\* cap on SensorReader._error_count (a read that would fail is not made beyond it)
MaxErrorCount == 7
\* config.get('max_errors', 5) (sensor_reader.py:76)
max_errors == 5

VARIABLES
    mode,                   \* "real", "mock", "app" or "sensor" (see above)
    connected,              \* MQTTClient.connected
    reconnect_attempts,     \* MQTTClient.reconnect_attempts
    stop_event,             \* MQTTClient._stop_event is set
    on_connect_callback,    \* MQTTClient.on_connect_callback is set
    loop_running,           \* the transport's I/O loop: loop_start() .. loop_stop()
    session,                \* the transport session: closed, pending, open, refused
    netPc,                  \* position of the network thread
    netRc,                  \* rc of the disconnect event being processed
    netAfterStop,           \* the stop flag was set when that event was reported
    delay,                  \* _attempt_reconnect's local delay, 0 outside the sleep
    appPc,                  \* position of the thread inside disconnect()
    discCalls,              \* number of disconnect() calls that have returned
    hbPc,                   \* heartbeat thread: none, loop, check, publish, dead
    pollPc,                 \* position of the publish_sensor_data caller
    psdConn,                \* connected as publish_sensor_data read it (while in the call)
    lastPub,                \* the publish call the last step completed, if it did
    ackLog,                 \* events of the current connection since its acknowledgment
    ackPrev,                \* reconnect_attempts just before that acknowledgment
    discLog,                \* steps of the current (or last) disconnect() call
    offlineCount,           \* 'offline' status messages submitted to the transport
    mockConnected,          \* MockMQTTClient.connected
    published_messages,     \* MockMQTTClient.published_messages (the kinds)
    mockLast,               \* what the last mock publish read, did and returned
    running,                \* IoTSensorClient.running
    shutdown_event,         \* IoTSensorClient.shutdown_event is set
    loopPc,                 \* position of the thread running _main_loop
    readIdx,                \* the sensor read_all, or the publish loop, is at
    readings,               \* the dict read_all builds and returns: sensor id -> reading
    cycleBase,              \* len(published_messages) when the current cycle began
    cycleLog,               \* what the current cycle logged: level, logger, sensor
    callLog,                \* publish_sensor_data calls of the current cycle and results
    stopPc,                 \* position of the thread inside IoTSensorClient.stop()
    reading,                \* a SensorReading under test
    valid,                  \* what reading.is_valid() returned
    sensor_type,            \* the sensor type validate_reading was asked about
    validated,              \* what validate_reading(reading) returned
    config,                 \* self.config: the client's configuration
    lastMsg,                \* the inbound message the last step processed, if any
    reader_class,           \* the class of the sensor reader under test
    has_sensor,             \* self.sensor and HAS_DHT / HAS_DS18B20: the driver is there
    last_reading,           \* SensorReader._last_reading
    error_count,            \* SensorReader._error_count
    returned,               \* what the last read() returned
    odLog,                  \* the steps of the _on_disconnect in progress, in order
    lastWrite,              \* the thread that assigned connected or reconnect_attempts in the last step
    will,                   \* the last will registered with the transport (client.will_set)
    sessionAs,              \* the identity and last will the latest connect()/reconnect() presented
    hbOrphans,              \* heartbeat threads still running that _heartbeat_thread no longer refers to
    hbStart                 \* what the _start_heartbeat of the last step did: started, kept

vars == <<mode, connected, reconnect_attempts, stop_event, on_connect_callback,
          loop_running, session, netPc, netRc, netAfterStop,
          delay, appPc, discCalls, hbPc, pollPc, psdConn, lastPub, ackLog, ackPrev,
          discLog, offlineCount, mockConnected, published_messages, mockLast,
          running, shutdown_event, loopPc, readIdx, readings, cycleBase, cycleLog,
          callLog, stopPc, reading, valid, sensor_type, validated, config, lastMsg,
          reader_class, has_sensor, last_reading, error_count, returned, odLog,
          lastWrite, will, sessionAs, hbOrphans, hbStart>>

(***************************************************************************)
(* SensorReading: the optional fields are <<>> for None and <<v>> for a    *)
(* value v.                                                                *)
(***************************************************************************)
None == <<>>

SensorReading(t, h, p, e) == [temperature |-> t, humidity |-> h, pressure |-> p, error |-> e]

\* reading before any was made
NoReading == [temperature |-> None, humidity |-> None, pressure |-> None,
              error |-> <<"unset">>]

\* every combination of present and absent fields
AllReadings ==
    {SensorReading(t, h, p, e) : t \in {None, <<22>>}, h \in {None, <<60>>},
                                 p \in {None, <<1013>>}, e \in {None, <<"error">>}}

\* An is_valid that wants every measurement (and in place of or).
is_valid_all_fields(r) ==
    r.error = None /\ r.temperature # None /\ r.humidity # None /\ r.pressure # None

\* SensorReading.is_valid(): self.error is None and (self.temperature is not None or
\* self.humidity is not None or self.pressure is not None)
is_valid(r) ==
    r.error = None /\ (r.temperature # None \/ r.humidity # None \/ r.pressure # None)

RECURSIVE Pow2(_)
Pow2(n) == IF n = 0 THEN 1 ELSE 2 * Pow2(n - 1)

Min(a, b) == IF a <= b THEN a ELSE b

Range(s) == {s[i] : i \in 1..Len(s)}

\* Outcomes of json.dumps + client.publish inside _publish:
\*   ok     the transport returned MQTT_ERR_SUCCESS
\*   err    the transport returned another code
\*   raise  client.publish raised
\*   ser    json.dumps raised (only a payload with caller-supplied data can)
PublishOutcomes(kind) ==
    IF kind = "sensor_data" THEN {"ok", "err", "raise", "ser"}
    ELSE {"ok", "err", "raise"}

\* lastPub when the last step completed no publish call
NoPublish == [kind |-> "none", callConn |-> FALSE, conn |-> FALSE, outcome |-> "none",
              submitted |-> FALSE, result |-> FALSE]

\* lastMsg when the last step processed no inbound message
NoMessage == [topic |-> <<>>, wellformed |-> FALSE, config_handled |-> FALSE,
              callback_called |-> FALSE, logged_error |-> FALSE, propagated |-> FALSE]

\* The configuration the client is constructed with (self.config = config).
DefaultConfig == [heartbeat_interval |-> 30, update_interval |-> 30]

\* The sensor reader classes; the first two read a driver when there is one.
ReaderClasses == {"DHT11Reader", "DS18B20Reader", "MockSensorReader"}

HardwareReaders == {"DHT11Reader", "DS18B20Reader"}

\* self.client_id
client_id == "p"

\* No last will: nothing registered (MockMQTTClient has no transport).
NoWill == [topic |-> "none", status |-> "none", reason |-> "none", qos |-> 0,
           retain |-> FALSE]

\* The last will _setup_client registers: client.will_set(will_topic, will_payload,
\* qos=1, retain=True) on the client's status topic.
LastWill == [topic |-> "sensor_status", status |-> "offline",
             reason |-> "unexpected_disconnect", qos |-> 1, retain |-> TRUE]

\* sessionAs before the first connect()
NoSession == [client_id |-> "none", will |-> NoWill]

\* What the transport client presents to the broker when it opens a session: the
\* client id it was constructed with and the will registered at that time.
SessionOptions == [client_id |-> client_id, will |-> will]

\* The initial state: MQTTClient.__init__ / MockMQTTClient.__init__.  The owner sets
\* the connect callback before connect() (main.py does) or leaves it unset.
Init ==
    /\ mode \in {"real", "mock", "app", "sensor", "reader"}
    /\ connected = FALSE
    /\ reconnect_attempts = 0
    /\ stop_event = FALSE
    /\ on_connect_callback \in BOOLEAN
    /\ (mode # "real" => ~on_connect_callback)
    /\ loop_running = FALSE
    /\ session = "closed"
    /\ netPc = "idle"
    /\ netRc = 0
    /\ netAfterStop = FALSE
    /\ delay = 0
    /\ appPc = "idle"
    /\ discCalls = 0
    /\ hbPc = "none"
    /\ pollPc = "idle"
    /\ psdConn = FALSE
    /\ lastPub = NoPublish
    /\ ackLog = <<>>
    /\ ackPrev = -1
    /\ discLog = <<>>
    /\ offlineCount = 0
    /\ mockConnected = FALSE
    /\ published_messages = <<>>
    /\ mockLast = [op |-> "none", conn |-> FALSE, len |-> 0, result |-> FALSE]
    /\ running = FALSE
    /\ shutdown_event = FALSE
    /\ loopPc = "none"
    /\ readIdx = 1
    /\ readings = <<>>
    /\ cycleBase = 0
    /\ cycleLog = <<>>
    /\ callLog = <<>>
    /\ stopPc = "idle"
    /\ reading = NoReading
    /\ valid = FALSE
    /\ sensor_type = "none"
    /\ validated = FALSE
    /\ config = DefaultConfig
    /\ lastMsg = NoMessage
    /\ reader_class \in IF mode = "reader" THEN ReaderClasses ELSE {"none"}
    /\ has_sensor \in IF reader_class \in HardwareReaders THEN BOOLEAN ELSE {FALSE}
    /\ last_reading = NoReading
    /\ error_count = 0
    /\ returned = NoReading
    /\ odLog = <<>>
    /\ lastWrite = "none"
    /\ will = IF mode = "real" THEN LastWill ELSE NoWill
    /\ sessionAs = NoSession
    /\ hbOrphans = 0
    /\ hbStart = "none"

(***************************************************************************)
(* _publish(topic, payload): the guard on connected, then json.dumps and   *)
(* client.publish.  The record is what the call read (conn), what happened *)
(* (outcome), whether a message reached the transport (submitted) and what *)
(* the call returned (result).  callConn is what the caller's own guard    *)
(* read (publish_sensor_data has one).                                     *)
(***************************************************************************)
\* A _publish that returns true whenever client.publish returned, whatever its code.
publish_true_unless_raised(kind, outcome) ==
    IF ~connected
    THEN [kind |-> kind, callConn |-> TRUE, conn |-> FALSE, outcome |-> "none",
          submitted |-> FALSE, result |-> FALSE]
    ELSE [kind |-> kind, callConn |-> TRUE, conn |-> TRUE, outcome |-> outcome,
          submitted |-> outcome # "ser", result |-> outcome \in {"ok", "err"}]

publish(kind, outcome) ==
    IF ~connected
    THEN [kind |-> kind, callConn |-> TRUE, conn |-> FALSE, outcome |-> "none",
          submitted |-> FALSE, result |-> FALSE]
    ELSE [kind |-> kind, callConn |-> TRUE, conn |-> TRUE, outcome |-> outcome,
          submitted |-> outcome # "ser", result |-> outcome = "ok"]

(***************************************************************************)
(* connect(): client.connect(host, port, keepalive), and loop_start() when *)
(* it succeeded.  It is called on a client that has no session and has not *)
(* been shut down (disconnect() tears the client down for good).           *)
(***************************************************************************)
\* A connect() that clears the will before it opens the session.
Connect_clears_will ==
    /\ mode = "real"
    /\ appPc = "idle"
    /\ ~stop_event
    /\ session = "closed"
    /\ \E ok \in BOOLEAN :
          IF ok
          THEN /\ session' = "pending"
               /\ loop_running' = TRUE
          ELSE UNCHANGED <<session, loop_running>>
    /\ will' = NoWill
    /\ sessionAs' = [client_id |-> client_id, will |-> NoWill]
    /\ lastPub' = NoPublish
    /\ lastMsg' = NoMessage
    /\ lastWrite' = "none"
    /\ hbStart' = "none"
    /\ UNCHANGED <<mode, connected, reconnect_attempts, stop_event, on_connect_callback,
                   netPc, netRc, netAfterStop, delay, appPc, discCalls, hbPc, pollPc,
                   psdConn, ackLog, ackPrev, discLog, offlineCount, mockConnected,
                   published_messages, mockLast, running, shutdown_event, loopPc,
                   readIdx, readings, cycleBase, cycleLog, callLog, stopPc, reading,
                   valid, sensor_type, validated, config, reader_class, has_sensor,
                   last_reading, error_count, returned, odLog, hbOrphans>>

Connect ==
    /\ mode = "real"
    /\ appPc = "idle"
    /\ ~stop_event
    /\ session = "closed"
    /\ \E ok \in BOOLEAN :
          IF ok
          THEN /\ session' = "pending"
               /\ loop_running' = TRUE
          ELSE UNCHANGED <<session, loop_running>>
    /\ sessionAs' = SessionOptions
    /\ lastPub' = NoPublish
    /\ lastMsg' = NoMessage
    /\ lastWrite' = "none"
    /\ hbStart' = "none"
    /\ UNCHANGED <<mode, connected, reconnect_attempts, stop_event, on_connect_callback,
                   netPc, netRc, netAfterStop, delay, appPc, discCalls, hbPc, pollPc,
                   psdConn, ackLog, ackPrev, discLog, offlineCount, mockConnected,
                   published_messages, mockLast, running, shutdown_event, loopPc,
                   readIdx, readings, cycleBase, cycleLog, callLog, stopPc, reading,
                   valid, sensor_type, validated, config, reader_class, has_sensor,
                   last_reading, error_count, returned, odLog, will, hbOrphans>>

(***************************************************************************)
(* _on_connect(rc), run by the network thread when the transport delivers  *)
(* the connect acknowledgment.  rc = 0: the two assignments, then the      *)
(* subscribe, the status publish, the heartbeat start and the callback as  *)
(* the following steps.  rc # 0: the error is logged.                      *)
(***************************************************************************)
\* An _on_connect without the line  self.reconnect_attempts = 0.
on_connect_keeps_attempts(rc) ==
    /\ mode = "real"
    /\ loop_running
    /\ netPc = "idle"
    /\ session = "pending"
    /\ IF rc = 0
       THEN /\ connected' = TRUE
            /\ session' = "open"
            /\ netPc' = "oc_subscribe"
            /\ ackLog' = <<>>
            /\ ackPrev' = reconnect_attempts
            /\ UNCHANGED reconnect_attempts
       ELSE /\ session' = "refused"
            /\ UNCHANGED <<connected, reconnect_attempts, netPc, ackLog, ackPrev>>
    /\ lastWrite' = IF rc = 0 THEN "network" ELSE "none"
    /\ lastPub' = NoPublish
    /\ lastMsg' = NoMessage
    /\ hbStart' = "none"
    /\ UNCHANGED <<mode, stop_event, on_connect_callback, loop_running, netRc,
                   netAfterStop, delay, appPc, discCalls, hbPc, pollPc, psdConn,
                   discLog, offlineCount, mockConnected, published_messages, mockLast,
                   running, shutdown_event, loopPc, readIdx, readings, cycleBase,
                   cycleLog, callLog, stopPc, reading, valid, sensor_type, validated,
                   config, reader_class, has_sensor, last_reading, error_count,
                   returned, odLog, will, sessionAs, hbOrphans>>

\* An _on_connect without the test of rc: it takes the success path on every
\* acknowledgment (the broker still refuses the session when rc # 0).
on_connect_unchecked(rc) ==
    /\ mode = "real"
    /\ loop_running
    /\ netPc = "idle"
    /\ session = "pending"
    /\ connected' = TRUE
    /\ reconnect_attempts' = 0
    /\ session' = IF rc = 0 THEN "open" ELSE "refused"
    /\ netPc' = "oc_subscribe"
    /\ ackLog' = <<>>
    /\ ackPrev' = reconnect_attempts
    /\ lastWrite' = "network"
    /\ lastPub' = NoPublish
    /\ lastMsg' = NoMessage
    /\ hbStart' = "none"
    /\ UNCHANGED <<mode, stop_event, on_connect_callback, loop_running, netRc,
                   netAfterStop, delay, appPc, discCalls, hbPc, pollPc, psdConn,
                   discLog, offlineCount, mockConnected, published_messages, mockLast,
                   running, shutdown_event, loopPc, readIdx, readings, cycleBase,
                   cycleLog, callLog, stopPc, reading, valid, sensor_type, validated,
                   config, reader_class, has_sensor, last_reading, error_count,
                   returned, odLog, will, sessionAs, hbOrphans>>

on_connect(rc) ==
    /\ mode = "real"
    /\ loop_running
    /\ netPc = "idle"
    /\ session = "pending"
    /\ IF rc = 0
       THEN /\ connected' = TRUE
            /\ reconnect_attempts' = 0
            /\ session' = "open"
            /\ netPc' = "oc_subscribe"
            /\ ackLog' = <<>>
            /\ ackPrev' = reconnect_attempts
       ELSE /\ session' = "refused"
            /\ UNCHANGED <<connected, reconnect_attempts, netPc, ackLog, ackPrev>>
    /\ lastWrite' = IF rc = 0 THEN "network" ELSE "none"
    /\ lastPub' = NoPublish
    /\ lastMsg' = NoMessage
    /\ hbStart' = "none"
    /\ UNCHANGED <<mode, stop_event, on_connect_callback, loop_running, netRc,
                   netAfterStop, delay, appPc, discCalls, hbPc, pollPc, psdConn,
                   discLog, offlineCount, mockConnected, published_messages, mockLast,
                   running, shutdown_event, loopPc, readIdx, readings, cycleBase,
                   cycleLog, callLog, stopPc, reading, valid, sensor_type, validated,
                   config, reader_class, has_sensor, last_reading, error_count,
                   returned, odLog, will, sessionAs, hbOrphans>>

OnConnect == \E rc \in {0, 5} : on_connect(rc)

\* self.subscribe(config_topic): guarded by connected, like _publish
subscribe ==
    /\ netPc = "oc_subscribe"
    /\ ackLog' = IF connected THEN Append(ackLog, "subscribe") ELSE ackLog
    /\ netPc' = "oc_status"
    /\ lastPub' = NoPublish
    /\ lastMsg' = NoMessage
    /\ lastWrite' = "none"
    /\ hbStart' = "none"
    /\ UNCHANGED <<mode, connected, reconnect_attempts, stop_event, on_connect_callback,
                   loop_running, session, netRc, netAfterStop, delay, appPc, discCalls,
                   hbPc, pollPc, psdConn, ackPrev, discLog, offlineCount, mockConnected,
                   published_messages, mockLast, running, shutdown_event, loopPc,
                   readIdx, readings, cycleBase, cycleLog, callLog, stopPc, reading,
                   valid, sensor_type, validated, config, reader_class, has_sensor,
                   last_reading, error_count, returned, odLog, will, sessionAs,
                   hbOrphans>>

\* self.publish_status('online', 'connected')
PublishOnline ==
    /\ netPc = "oc_status"
    /\ \E o \in PublishOutcomes("status") :
          LET r == publish("status", o) IN
          /\ lastPub' = r
          /\ ackLog' = IF r.submitted THEN Append(ackLog, "online") ELSE ackLog
    /\ netPc' = "oc_heartbeat"
    /\ lastMsg' = NoMessage
    /\ lastWrite' = "none"
    /\ hbStart' = "none"
    /\ UNCHANGED <<mode, connected, reconnect_attempts, stop_event, on_connect_callback,
                   loop_running, session, netRc, netAfterStop, delay, appPc, discCalls,
                   hbPc, pollPc, psdConn, ackPrev, discLog, offlineCount, mockConnected,
                   published_messages, mockLast, running, shutdown_event, loopPc,
                   readIdx, readings, cycleBase, cycleLog, callLog, stopPc, reading,
                   valid, sensor_type, validated, config, reader_class, has_sensor,
                   last_reading, error_count, returned, odLog, will, sessionAs,
                   hbOrphans>>

\* A thread at this position has not left _heartbeat_loop.
ThreadRunning(pc) == pc \in {"loop", "check", "publish"}

\* A _start_heartbeat without its test.
HeartbeatAlive_unchecked == FALSE

\* if self._heartbeat_thread and self._heartbeat_thread.is_alive(): return
HeartbeatAlive == ThreadRunning(hbPc)

\* self._start_heartbeat(): nothing when the thread is alive, else a new thread is
\* assigned to _heartbeat_thread and started (a thread it replaces keeps running if it
\* had not ended); then: if self.on_connect_callback: self.on_connect_callback()
start_heartbeat ==
    /\ netPc = "oc_heartbeat"
    /\ IF HeartbeatAlive
       THEN /\ hbStart' = "kept"
            /\ UNCHANGED <<hbPc, hbOrphans>>
       ELSE /\ hbStart' = "started"
            /\ hbPc' = "loop"
            /\ hbOrphans' = IF ThreadRunning(hbPc) THEN hbOrphans + 1 ELSE hbOrphans
    /\ ackLog' = IF on_connect_callback
                 THEN ackLog \o <<"heartbeat", "callback">>
                 ELSE Append(ackLog, "heartbeat")
    /\ netPc' = "idle"
    /\ lastPub' = NoPublish
    /\ lastMsg' = NoMessage
    /\ lastWrite' = "none"
    /\ UNCHANGED <<mode, connected, reconnect_attempts, stop_event, on_connect_callback,
                   loop_running, session, netRc, netAfterStop, delay, appPc, discCalls,
                   pollPc, psdConn, ackPrev, discLog, offlineCount, mockConnected,
                   published_messages, mockLast, running, shutdown_event, loopPc,
                   readIdx, readings, cycleBase, cycleLog, callLog, stopPc, reading,
                   valid, sensor_type, validated, config, reader_class, has_sensor,
                   last_reading, error_count, returned, odLog, will, sessionAs>>

(***************************************************************************)
(* _on_disconnect(rc), run by the network thread when the transport        *)
(* reports that the session ended: connected = False, then the callback    *)
(* and the decision to reconnect.                                          *)
(***************************************************************************)
\* An _on_disconnect without its first assignment.
on_disconnect_keeps_connected(rc) ==
    /\ mode = "real"
    /\ loop_running
    /\ netPc = "idle"
    /\ session # "closed"
    /\ session' = "closed"
    /\ netRc' = rc
    /\ netAfterStop' = stop_event
    /\ netPc' = "od_callback"
    /\ odLog' = <<"connected_false">>
    /\ ackLog' = <<>>
    /\ ackPrev' = -1
    /\ lastPub' = NoPublish
    /\ lastMsg' = NoMessage
    /\ lastWrite' = "none"
    /\ hbStart' = "none"
    /\ UNCHANGED <<mode, connected, reconnect_attempts, stop_event, on_connect_callback,
                   loop_running, delay, appPc, discCalls, hbPc, pollPc, psdConn,
                   discLog, offlineCount, mockConnected, published_messages, mockLast,
                   running, shutdown_event, loopPc, readIdx, readings, cycleBase,
                   cycleLog, callLog, stopPc, reading, valid, sensor_type, validated,
                   config, reader_class, has_sensor, last_reading, error_count,
                   returned, will, sessionAs, hbOrphans>>

on_disconnect(rc) ==
    /\ mode = "real"
    /\ loop_running
    /\ netPc = "idle"
    /\ session # "closed"
    /\ connected' = FALSE
    /\ session' = "closed"
    /\ netRc' = rc
    /\ netAfterStop' = stop_event
    /\ netPc' = "od_callback"
    /\ odLog' = <<"connected_false">>
    /\ ackLog' = <<>>
    /\ ackPrev' = -1
    /\ lastWrite' = "network"
    /\ lastPub' = NoPublish
    /\ lastMsg' = NoMessage
    /\ hbStart' = "none"
    /\ UNCHANGED <<mode, reconnect_attempts, stop_event, on_connect_callback,
                   loop_running, delay, appPc, discCalls, hbPc, pollPc, psdConn,
                   discLog, offlineCount, mockConnected, published_messages, mockLast,
                   running, shutdown_event, loopPc, readIdx, readings, cycleBase,
                   cycleLog, callLog, stopPc, reading, valid, sensor_type, validated,
                   config, reader_class, has_sensor, last_reading, error_count,
                   returned, will, sessionAs, hbOrphans>>

OnDisconnect == \E rc \in {0, 1} : on_disconnect(rc)

\* The condition without its test of the stop flag.
ReconnectWanted_ignores_stop(rc) == rc # 0

\* The condition without its test of rc.
ReconnectWanted_ignores_rc(rc) == ~stop_event

\* if rc != mqtt.MQTT_ERR_SUCCESS and not self._stop_event.is_set()
ReconnectWanted(rc) == rc # 0 /\ ~stop_event

\* _attempt_reconnect without its guard.
ReconnectExhausted_never == FALSE

\* The guard with > in place of >=.
ReconnectExhausted_off_by_one == reconnect_attempts > max_reconnect_attempts

\* if self.reconnect_attempts >= self.max_reconnect_attempts: return
ReconnectExhausted == reconnect_attempts >= max_reconnect_attempts

\* A delay with 2 * n in place of 2 ** n.
Backoff_linear(n) == Min(30, 2 * n)

\* delay = min(30, 2 ** self.reconnect_attempts)
Backoff(n) == Min(30, Pow2(n))

\* main.py 69-71 sets the three callbacks together; a bare client has none.
on_disconnect_callback == on_connect_callback

\* if self.on_disconnect_callback: self.on_disconnect_callback()  (the callback of
\* main.py only logs)
disconnect_callback ==
    /\ netPc = "od_callback"
    /\ odLog' = IF on_disconnect_callback THEN Append(odLog, "callback") ELSE odLog
    /\ netPc' = "od_decide"
    /\ lastPub' = NoPublish
    /\ lastMsg' = NoMessage
    /\ lastWrite' = "none"
    /\ hbStart' = "none"
    /\ UNCHANGED <<mode, connected, reconnect_attempts, stop_event, on_connect_callback,
                   loop_running, session, netRc, netAfterStop, delay, appPc, discCalls,
                   hbPc, pollPc, psdConn, ackLog, ackPrev, discLog, offlineCount,
                   mockConnected, published_messages, mockLast, running, shutdown_event,
                   loopPc, readIdx, readings, cycleBase, cycleLog, callLog, stopPc,
                   reading, valid, sensor_type, validated, config, reader_class,
                   has_sensor, last_reading, error_count, returned, will, sessionAs,
                   hbOrphans>>

\* The rest of _on_disconnect (the decision) and the start of _attempt_reconnect: the
\* counter is incremented, the delay computed, and the thread goes to sleep.
attempt_reconnect ==
    /\ netPc = "od_decide"
    /\ IF ReconnectWanted(netRc) /\ ~ReconnectExhausted
       THEN /\ reconnect_attempts' = reconnect_attempts + 1
            /\ delay' = Backoff(reconnect_attempts + 1)
            /\ netPc' = "backoff"
            /\ odLog' = Append(odLog, "attempt_reconnect")
            /\ UNCHANGED <<netRc, netAfterStop>>
       ELSE /\ netPc' = "idle"
            /\ netRc' = 0
            /\ netAfterStop' = FALSE
            /\ odLog' = <<>>
            /\ UNCHANGED <<reconnect_attempts, delay>>
    /\ lastWrite' = IF ReconnectWanted(netRc) /\ ~ReconnectExhausted
                    THEN "network" ELSE "none"
    /\ lastPub' = NoPublish
    /\ lastMsg' = NoMessage
    /\ hbStart' = "none"
    /\ UNCHANGED <<mode, connected, stop_event, on_connect_callback, loop_running,
                   session, appPc, discCalls, hbPc, pollPc, psdConn, ackLog, ackPrev,
                   discLog, offlineCount, mockConnected, published_messages, mockLast,
                   running, shutdown_event, loopPc, readIdx, readings, cycleBase,
                   cycleLog, callLog, stopPc, reading, valid, sensor_type, validated,
                   config, reader_class, has_sensor, last_reading, error_count,
                   returned, will, sessionAs, hbOrphans>>

\* time.sleep(delay) is over; self.client.reconnect() succeeds (a new session awaits
\* its acknowledgment) or raises (logged).
Reconnect ==
    /\ netPc = "backoff"
    /\ \E ok \in BOOLEAN : session' = IF ok THEN "pending" ELSE "closed"
    /\ delay' = 0
    /\ netRc' = 0
    /\ netAfterStop' = FALSE
    /\ netPc' = "idle"
    /\ odLog' = <<>>
    /\ sessionAs' = SessionOptions
    /\ lastPub' = NoPublish
    /\ lastMsg' = NoMessage
    /\ lastWrite' = "none"
    /\ hbStart' = "none"
    /\ UNCHANGED <<mode, connected, reconnect_attempts, stop_event, on_connect_callback,
                   loop_running, appPc, discCalls, hbPc, pollPc, psdConn, ackLog,
                   ackPrev, discLog, offlineCount, mockConnected, published_messages,
                   mockLast, running, shutdown_event, loopPc, readIdx, readings,
                   cycleBase, cycleLog, callLog, stopPc, reading, valid, sensor_type,
                   validated, config, reader_class, has_sensor, last_reading,
                   error_count, returned, will, hbOrphans>>

(***************************************************************************)
(* _heartbeat_loop: while not self._stop_event.is_set(): if self.connected:*)
(* self.publish_heartbeat(); self._stop_event.wait(heartbeat_interval)     *)
(***************************************************************************)
\* A loop that also ends when the client is not connected.
HeartbeatLoop_ends_on_disconnect ==
    /\ hbPc = "loop"
    /\ hbPc' = IF stop_event \/ ~connected THEN "dead" ELSE "check"
    /\ lastPub' = NoPublish
    /\ lastMsg' = NoMessage
    /\ lastWrite' = "none"
    /\ hbStart' = "none"
    /\ UNCHANGED <<mode, connected, reconnect_attempts, stop_event, on_connect_callback,
                   loop_running, session, netPc, netRc, netAfterStop, delay, appPc,
                   discCalls, pollPc, psdConn, ackLog, ackPrev, discLog, offlineCount,
                   mockConnected, published_messages, mockLast, running, shutdown_event,
                   loopPc, readIdx, readings, cycleBase, cycleLog, callLog, stopPc,
                   reading, valid, sensor_type, validated, config, reader_class,
                   has_sensor, last_reading, error_count, returned, odLog, will,
                   sessionAs, hbOrphans>>

HeartbeatLoop ==
    /\ hbPc = "loop"
    /\ hbPc' = IF stop_event THEN "dead" ELSE "check"
    /\ lastPub' = NoPublish
    /\ lastMsg' = NoMessage
    /\ lastWrite' = "none"
    /\ hbStart' = "none"
    /\ UNCHANGED <<mode, connected, reconnect_attempts, stop_event, on_connect_callback,
                   loop_running, session, netPc, netRc, netAfterStop, delay, appPc,
                   discCalls, pollPc, psdConn, ackLog, ackPrev, discLog, offlineCount,
                   mockConnected, published_messages, mockLast, running, shutdown_event,
                   loopPc, readIdx, readings, cycleBase, cycleLog, callLog, stopPc,
                   reading, valid, sensor_type, validated, config, reader_class,
                   has_sensor, last_reading, error_count, returned, odLog, will,
                   sessionAs, hbOrphans>>

HeartbeatCheck ==
    /\ hbPc = "check"
    /\ hbPc' = IF connected THEN "publish" ELSE "loop"
    /\ lastPub' = NoPublish
    /\ lastMsg' = NoMessage
    /\ lastWrite' = "none"
    /\ hbStart' = "none"
    /\ UNCHANGED <<mode, connected, reconnect_attempts, stop_event, on_connect_callback,
                   loop_running, session, netPc, netRc, netAfterStop, delay, appPc,
                   discCalls, pollPc, psdConn, ackLog, ackPrev, discLog, offlineCount,
                   mockConnected, published_messages, mockLast, running, shutdown_event,
                   loopPc, readIdx, readings, cycleBase, cycleLog, callLog, stopPc,
                   reading, valid, sensor_type, validated, config, reader_class,
                   has_sensor, last_reading, error_count, returned, odLog, will,
                   sessionAs, hbOrphans>>

\* publish_heartbeat(); the first heartbeat of a connection is logged as "tick"
publish_heartbeat ==
    /\ hbPc = "publish"
    /\ \E o \in PublishOutcomes("heartbeat") :
          LET r == publish("heartbeat", o) IN
          /\ lastPub' = r
          /\ ackLog' = IF r.submitted /\ "tick" \notin Range(ackLog)
                       THEN Append(ackLog, "tick") ELSE ackLog
    /\ hbPc' = "loop"
    /\ lastMsg' = NoMessage
    /\ lastWrite' = "none"
    /\ hbStart' = "none"
    /\ UNCHANGED <<mode, connected, reconnect_attempts, stop_event, on_connect_callback,
                   loop_running, session, netPc, netRc, netAfterStop, delay, appPc,
                   discCalls, pollPc, psdConn, ackPrev, discLog, offlineCount,
                   mockConnected, published_messages, mockLast, running, shutdown_event,
                   loopPc, readIdx, readings, cycleBase, cycleLog, callLog, stopPc,
                   reading, valid, sensor_type, validated, config, reader_class,
                   has_sensor, last_reading, error_count, returned, odLog, will,
                   sessionAs, hbOrphans>>

(***************************************************************************)
(* disconnect(), statement by statement.                                   *)
(***************************************************************************)
\* A disconnect() that clears connected itself, as MockMQTTClient.disconnect does.
DisconnectCall_clears_connected ==
    /\ mode = "real"
    /\ appPc = "idle"
    /\ discCalls < MaxDisconnectCalls
    /\ stop_event' = TRUE
    /\ connected' = FALSE
    /\ lastWrite' = "app"
    /\ discLog' = <<"stop">>
    /\ appPc' = "d_join"
    /\ lastPub' = NoPublish
    /\ lastMsg' = NoMessage
    /\ hbStart' = "none"
    /\ UNCHANGED <<mode, reconnect_attempts, on_connect_callback, loop_running, session,
                   netPc, netRc, netAfterStop, delay, discCalls, hbPc, pollPc, psdConn,
                   ackLog, ackPrev, offlineCount, mockConnected, published_messages,
                   mockLast, running, shutdown_event, loopPc, readIdx, readings,
                   cycleBase, cycleLog, callLog, stopPc, reading, valid, sensor_type,
                   validated, config, reader_class, has_sensor, last_reading,
                   error_count, returned, odLog, will, sessionAs, hbOrphans>>

\* self._stop_event.set()
DisconnectCall ==
    /\ mode = "real"
    /\ appPc = "idle"
    /\ discCalls < MaxDisconnectCalls
    /\ stop_event' = TRUE
    /\ discLog' = <<"stop">>
    /\ appPc' = "d_join"
    /\ lastPub' = NoPublish
    /\ lastMsg' = NoMessage
    /\ lastWrite' = "none"
    /\ hbStart' = "none"
    /\ UNCHANGED <<mode, connected, reconnect_attempts, on_connect_callback,
                   loop_running, session, netPc, netRc, netAfterStop, delay, discCalls,
                   hbPc, pollPc, psdConn, ackLog, ackPrev, offlineCount, mockConnected,
                   published_messages, mockLast, running, shutdown_event, loopPc,
                   readIdx, readings, cycleBase, cycleLog, callLog, stopPc, reading,
                   valid, sensor_type, validated, config, reader_class, has_sensor,
                   last_reading, error_count, returned, odLog, will, sessionAs,
                   hbOrphans>>

\* if self._heartbeat_thread: self._heartbeat_thread.join(timeout=5)
\* The join returns when the thread has ended or when the timeout has run out.
DisconnectJoin ==
    /\ appPc = "d_join"
    /\ discLog' = IF hbPc # "none" THEN Append(discLog, "join") ELSE discLog
    /\ appPc' = "d_check"
    /\ lastPub' = NoPublish
    /\ lastMsg' = NoMessage
    /\ lastWrite' = "none"
    /\ hbStart' = "none"
    /\ UNCHANGED <<mode, connected, reconnect_attempts, stop_event, on_connect_callback,
                   loop_running, session, netPc, netRc, netAfterStop, delay, discCalls,
                   hbPc, pollPc, psdConn, ackLog, ackPrev, offlineCount, mockConnected,
                   published_messages, mockLast, running, shutdown_event, loopPc,
                   readIdx, readings, cycleBase, cycleLog, callLog, stopPc, reading,
                   valid, sensor_type, validated, config, reader_class, has_sensor,
                   last_reading, error_count, returned, odLog, will, sessionAs,
                   hbOrphans>>

\* if self.connected: (call publish_status)
DisconnectCheck ==
    /\ appPc = "d_check"
    /\ IF connected
       THEN /\ discLog' = Append(discLog, "status")
            /\ appPc' = "d_status"
       ELSE /\ appPc' = "d_loop_stop"
            /\ UNCHANGED discLog
    /\ lastPub' = NoPublish
    /\ lastMsg' = NoMessage
    /\ lastWrite' = "none"
    /\ hbStart' = "none"
    /\ UNCHANGED <<mode, connected, reconnect_attempts, stop_event, on_connect_callback,
                   loop_running, session, netPc, netRc, netAfterStop, delay, discCalls,
                   hbPc, pollPc, psdConn, ackLog, ackPrev, offlineCount, mockConnected,
                   published_messages, mockLast, running, shutdown_event, loopPc,
                   readIdx, readings, cycleBase, cycleLog, callLog, stopPc, reading,
                   valid, sensor_type, validated, config, reader_class, has_sensor,
                   last_reading, error_count, returned, odLog, will, sessionAs,
                   hbOrphans>>

\* self.publish_status('offline', 'graceful_disconnect')
PublishOffline ==
    /\ appPc = "d_status"
    /\ \E o \in PublishOutcomes("status") :
          LET r == publish("status", o) IN
          /\ lastPub' = r
          /\ discLog' = IF r.submitted THEN Append(discLog, "offline") ELSE discLog
          /\ offlineCount' = IF r.submitted THEN offlineCount + 1 ELSE offlineCount
    /\ appPc' = "d_loop_stop"
    /\ lastMsg' = NoMessage
    /\ lastWrite' = "none"
    /\ hbStart' = "none"
    /\ UNCHANGED <<mode, connected, reconnect_attempts, stop_event, on_connect_callback,
                   loop_running, session, netPc, netRc, netAfterStop, delay, discCalls,
                   hbPc, pollPc, psdConn, ackLog, ackPrev, mockConnected,
                   published_messages, mockLast, running, shutdown_event, loopPc,
                   readIdx, readings, cycleBase, cycleLog, callLog, stopPc, reading,
                   valid, sensor_type, validated, config, reader_class, has_sensor,
                   last_reading, error_count, returned, odLog, will, sessionAs,
                   hbOrphans>>

\* A disconnect() that stops the I/O loop before it looks at connected.
DisconnectLoopStop_early ==
    /\ appPc \in {"d_check", "d_loop_stop"}
    /\ netPc = "idle"
    /\ IF "loop_stop" \notin Range(discLog)
       THEN /\ loop_running' = FALSE
            /\ discLog' = Append(discLog, "loop_stop")
            /\ appPc' = IF appPc = "d_check" THEN "d_check" ELSE "d_close"
       ELSE /\ appPc = "d_loop_stop"
            /\ appPc' = "d_close"
            /\ UNCHANGED <<loop_running, discLog>>
    /\ lastPub' = NoPublish
    /\ lastMsg' = NoMessage
    /\ lastWrite' = "none"
    /\ hbStart' = "none"
    /\ UNCHANGED <<mode, connected, reconnect_attempts, stop_event, on_connect_callback,
                   session, netPc, netRc, netAfterStop, delay, discCalls, hbPc, pollPc,
                   psdConn, ackLog, ackPrev, offlineCount, mockConnected,
                   published_messages, mockLast, running, shutdown_event, loopPc,
                   readIdx, readings, cycleBase, cycleLog, callLog, stopPc, reading,
                   valid, sensor_type, validated, config, reader_class, has_sensor,
                   last_reading, error_count, returned, odLog, will, sessionAs,
                   hbOrphans>>

\* self.client.loop_stop(): joins the network thread, so it returns only when that
\* thread is not inside a callback.
DisconnectLoopStop ==
    /\ appPc = "d_loop_stop"
    /\ netPc = "idle"
    /\ loop_running' = FALSE
    /\ discLog' = Append(discLog, "loop_stop")
    /\ appPc' = "d_close"
    /\ lastPub' = NoPublish
    /\ lastMsg' = NoMessage
    /\ lastWrite' = "none"
    /\ hbStart' = "none"
    /\ UNCHANGED <<mode, connected, reconnect_attempts, stop_event, on_connect_callback,
                   session, netPc, netRc, netAfterStop, delay, discCalls, hbPc, pollPc,
                   psdConn, ackLog, ackPrev, offlineCount, mockConnected,
                   published_messages, mockLast, running, shutdown_event, loopPc,
                   readIdx, readings, cycleBase, cycleLog, callLog, stopPc, reading,
                   valid, sensor_type, validated, config, reader_class, has_sensor,
                   last_reading, error_count, returned, odLog, will, sessionAs,
                   hbOrphans>>

\* self.client.disconnect(): the session is closed.  With the I/O loop stopped the
\* transport reports the end of an existing session by running _on_disconnect in the
\* calling thread when it could write its DISCONNECT at once (reported), and not at
\* all when it could not.  The stop flag is set, so _on_disconnect only clears
\* connected and fires the callback.
DisconnectClose ==
    /\ appPc = "d_close"
    /\ \E reported \in BOOLEAN :
          IF session # "closed" /\ reported
          THEN /\ connected' = FALSE
               /\ ackLog' = <<>>
               /\ ackPrev' = -1
               /\ lastWrite' = "app"
          ELSE /\ lastWrite' = "none"
               /\ UNCHANGED <<connected, ackLog, ackPrev>>
    /\ session' = "closed"
    /\ discLog' = Append(discLog, "close")
    /\ discCalls' = discCalls + 1
    /\ appPc' = "idle"
    /\ lastPub' = NoPublish
    /\ lastMsg' = NoMessage
    /\ hbStart' = "none"
    /\ UNCHANGED <<mode, reconnect_attempts, stop_event, on_connect_callback,
                   loop_running, netPc, netRc, netAfterStop, delay, hbPc, pollPc,
                   psdConn, offlineCount, mockConnected, published_messages, mockLast,
                   running, shutdown_event, loopPc, readIdx, readings, cycleBase,
                   cycleLog, callLog, stopPc, reading, valid, sensor_type, validated,
                   config, reader_class, has_sensor, last_reading, error_count,
                   returned, odLog, will, sessionAs, hbOrphans>>

(***************************************************************************)
(* publish_sensor_data(sensor_id, data): its own guard on connected, then  *)
(* _publish (which reads connected again).                                 *)
(***************************************************************************)
\* A publish_sensor_data without its own guard.
SensorDataRefused_never == FALSE

\* if not self.connected: return False
SensorDataRefused == ~connected

\* A publish_sensor_data that takes a lock the network thread holds while it sleeps.
publish_sensor_data_waits ==
    /\ mode = "real"
    /\ pollPc = "idle"
    /\ netPc # "backoff"
    /\ IF SensorDataRefused
       THEN /\ lastPub' = [kind |-> "sensor_data", callConn |-> connected,
                           conn |-> connected, outcome |-> "none",
                           submitted |-> FALSE, result |-> FALSE]
            /\ UNCHANGED <<pollPc, psdConn>>
       ELSE /\ pollPc' = "publish"
            /\ psdConn' = connected
            /\ lastPub' = NoPublish
    /\ lastMsg' = NoMessage
    /\ lastWrite' = "none"
    /\ hbStart' = "none"
    /\ UNCHANGED <<mode, connected, reconnect_attempts, stop_event, on_connect_callback,
                   loop_running, session, netPc, netRc, netAfterStop, delay, appPc,
                   discCalls, hbPc, ackLog, ackPrev, discLog, offlineCount,
                   mockConnected, published_messages, mockLast, running, shutdown_event,
                   loopPc, readIdx, readings, cycleBase, cycleLog, callLog, stopPc,
                   reading, valid, sensor_type, validated, config, reader_class,
                   has_sensor, last_reading, error_count, returned, odLog, will,
                   sessionAs, hbOrphans>>

publish_sensor_data ==
    /\ mode = "real"
    /\ pollPc = "idle"
    /\ IF SensorDataRefused
       THEN /\ lastPub' = [kind |-> "sensor_data", callConn |-> connected,
                           conn |-> connected, outcome |-> "none",
                           submitted |-> FALSE, result |-> FALSE]
            /\ UNCHANGED <<pollPc, psdConn>>
       ELSE /\ pollPc' = "publish"
            /\ psdConn' = connected
            /\ lastPub' = NoPublish
    /\ lastMsg' = NoMessage
    /\ lastWrite' = "none"
    /\ hbStart' = "none"
    /\ UNCHANGED <<mode, connected, reconnect_attempts, stop_event, on_connect_callback,
                   loop_running, session, netPc, netRc, netAfterStop, delay, appPc,
                   discCalls, hbPc, ackLog, ackPrev, discLog, offlineCount,
                   mockConnected, published_messages, mockLast, running, shutdown_event,
                   loopPc, readIdx, readings, cycleBase, cycleLog, callLog, stopPc,
                   reading, valid, sensor_type, validated, config, reader_class,
                   has_sensor, last_reading, error_count, returned, odLog, will,
                   sessionAs, hbOrphans>>

\* return self._publish(topic, payload)
PublishSensorData ==
    /\ pollPc = "publish"
    /\ \E o \in PublishOutcomes("sensor_data") :
          lastPub' = [publish("sensor_data", o) EXCEPT !.callConn = psdConn]
    /\ pollPc' = "idle"
    /\ psdConn' = FALSE
    /\ lastMsg' = NoMessage
    /\ lastWrite' = "none"
    /\ hbStart' = "none"
    /\ UNCHANGED <<mode, connected, reconnect_attempts, stop_event, on_connect_callback,
                   loop_running, session, netPc, netRc, netAfterStop, delay, appPc,
                   discCalls, hbPc, ackLog, ackPrev, discLog, offlineCount,
                   mockConnected, published_messages, mockLast, running, shutdown_event,
                   loopPc, readIdx, readings, cycleBase, cycleLog, callLog, stopPc,
                   reading, valid, sensor_type, validated, config, reader_class,
                   has_sensor, last_reading, error_count, returned, odLog, will,
                   sessionAs, hbOrphans>>

(***************************************************************************)
(* MockMQTTClient                                                          *)
(***************************************************************************)
MockConnect ==
    /\ mode = "mock"
    /\ mockConnected' = TRUE
    /\ lastPub' = NoPublish
    /\ lastMsg' = NoMessage
    /\ lastWrite' = "none"
    /\ hbStart' = "none"
    /\ UNCHANGED <<mode, connected, reconnect_attempts, stop_event, on_connect_callback,
                   loop_running, session, netPc, netRc, netAfterStop, delay, appPc,
                   discCalls, hbPc, pollPc, psdConn, ackLog, ackPrev, discLog,
                   offlineCount, published_messages, mockLast, running, shutdown_event,
                   loopPc, readIdx, readings, cycleBase, cycleLog, callLog, stopPc,
                   reading, valid, sensor_type, validated, config, reader_class,
                   has_sensor, last_reading, error_count, returned, odLog, will,
                   sessionAs, hbOrphans>>

MockDisconnect ==
    /\ mode = "mock"
    /\ mockConnected' = FALSE
    /\ lastPub' = NoPublish
    /\ lastMsg' = NoMessage
    /\ lastWrite' = "none"
    /\ hbStart' = "none"
    /\ UNCHANGED <<mode, connected, reconnect_attempts, stop_event, on_connect_callback,
                   loop_running, session, netPc, netRc, netAfterStop, delay, appPc,
                   discCalls, hbPc, pollPc, psdConn, ackLog, ackPrev, discLog,
                   offlineCount, published_messages, mockLast, running, shutdown_event,
                   loopPc, readIdx, readings, cycleBase, cycleLog, callLog, stopPc,
                   reading, valid, sensor_type, validated, config, reader_class,
                   has_sensor, last_reading, error_count, returned, odLog, will,
                   sessionAs, hbOrphans>>

\* published_messages after a mock publish call: if not self.connected: return False;
\* else the message is appended
MockPublished(kind) ==
    IF mockConnected THEN Append(published_messages, kind) ELSE published_messages

\* A mock publish without  if not self.connected: return False.
MockPublish_unguarded(kind) ==
    /\ mode = "mock"
    /\ Len(published_messages) < MaxPublished
    /\ mockLast' = [op |-> kind, conn |-> mockConnected,
                    len |-> Len(published_messages), result |-> TRUE]
    /\ published_messages' = Append(published_messages, kind)
    /\ lastPub' = NoPublish
    /\ lastMsg' = NoMessage
    /\ lastWrite' = "none"
    /\ hbStart' = "none"
    /\ UNCHANGED <<mode, connected, reconnect_attempts, stop_event, on_connect_callback,
                   loop_running, session, netPc, netRc, netAfterStop, delay, appPc,
                   discCalls, hbPc, pollPc, psdConn, ackLog, ackPrev, discLog,
                   offlineCount, mockConnected, running, shutdown_event, loopPc,
                   readIdx, readings, cycleBase, cycleLog, callLog, stopPc, reading,
                   valid, sensor_type, validated, config, reader_class, has_sensor,
                   last_reading, error_count, returned, odLog, will, sessionAs,
                   hbOrphans>>

\* MockMQTTClient.publish_sensor_data / publish_status: the same shape, another kind
MockPublish(kind) ==
    /\ mode = "mock"
    /\ Len(published_messages) < MaxPublished
    /\ mockLast' = [op |-> kind, conn |-> mockConnected,
                    len |-> Len(published_messages), result |-> mockConnected]
    /\ published_messages' = MockPublished(kind)
    /\ lastPub' = NoPublish
    /\ lastMsg' = NoMessage
    /\ lastWrite' = "none"
    /\ hbStart' = "none"
    /\ UNCHANGED <<mode, connected, reconnect_attempts, stop_event, on_connect_callback,
                   loop_running, session, netPc, netRc, netAfterStop, delay, appPc,
                   discCalls, hbPc, pollPc, psdConn, ackLog, ackPrev, discLog,
                   offlineCount, mockConnected, running, shutdown_event, loopPc,
                   readIdx, readings, cycleBase, cycleLog, callLog, stopPc, reading,
                   valid, sensor_type, validated, config, reader_class, has_sensor,
                   last_reading, error_count, returned, odLog, will, sessionAs,
                   hbOrphans>>

MockPublishSensorData == MockPublish("sensor_data")

MockPublishStatus == MockPublish("status")

(***************************************************************************)
(* SensorManager (sensor_reader.py) and the poll loop of IoTSensorClient   *)
(* (main.py), with a MockMQTTClient as the broker client.                  *)
(***************************************************************************)
\* the ids of the registered sensors, in the order of self.sensors
Sensors == 1..NumSensors

\* The readings the readers of sensor_reader.py return: a DHT reading (DHT11Reader,
\* MockSensorReader), a DS18B20 reading, a reader's error reading (no values and an
\* error) and MockSensorReader's simulated error (values and an error).
ReaderOutputs ==
    {SensorReading(<<22>>, <<60>>, None, None),
     SensorReading(<<22>>, None, None, None),
     SensorReading(None, None, None, <<"error">>),
     SensorReading(<<22>>, <<60>>, None, <<"error">>)}

\* What sensor.read() does: it returns a reading or it raises.
ReadOutcomes ==
    {[raised |-> FALSE, reading |-> r] : r \in ReaderOutputs}
       \cup {[raised |-> TRUE, reading |-> NoReading]}

\* the reading read_all puts in place of one whose read raised:
\* SensorReading(sensor_id=sensor_id, error=str(e))
ErrorReading == SensorReading(None, None, None, <<"error">>)

LogEntry(level, by, sensor) == [level |-> level, by |-> by, sensor |-> sensor]

\* IoTSensorClient.start(): initialize(), mqtt_client.connect() (the mock's connect
\* returns True), running = True, the _main_loop thread is started.
AppStart ==
    /\ mode = "app"
    /\ loopPc = "none"
    /\ stopPc = "idle"
    /\ mockConnected' = TRUE
    /\ running' = TRUE
    /\ loopPc' = "head"
    /\ lastPub' = NoPublish
    /\ lastMsg' = NoMessage
    /\ lastWrite' = "none"
    /\ hbStart' = "none"
    /\ UNCHANGED <<mode, connected, reconnect_attempts, stop_event, on_connect_callback,
                   loop_running, session, netPc, netRc, netAfterStop, delay, appPc,
                   discCalls, hbPc, pollPc, psdConn, ackLog, ackPrev, discLog,
                   offlineCount, published_messages, mockLast, shutdown_event, readIdx,
                   readings, cycleBase, cycleLog, callLog, stopPc, reading, valid,
                   sensor_type, validated, config, reader_class, has_sensor,
                   last_reading, error_count, returned, odLog, will, sessionAs,
                   hbOrphans>>

\* while self.running and not self.shutdown_event.is_set(): (and try: read_all())
MainLoopTest ==
    /\ loopPc = "head"
    /\ IF running /\ ~shutdown_event
       THEN /\ Len(published_messages) < MaxPublished
            /\ loopPc' = "read"
            /\ readIdx' = 1
            /\ readings' = <<>>
            /\ cycleBase' = Len(published_messages)
            /\ cycleLog' = <<>>
            /\ callLog' = <<>>
       ELSE /\ loopPc' = "done"
            /\ readIdx' = 1
            /\ readings' = <<>>
            /\ cycleBase' = 0
            /\ cycleLog' = <<>>
            /\ callLog' = <<>>
    /\ lastPub' = NoPublish
    /\ lastMsg' = NoMessage
    /\ lastWrite' = "none"
    /\ hbStart' = "none"
    /\ UNCHANGED <<mode, connected, reconnect_attempts, stop_event, on_connect_callback,
                   loop_running, session, netPc, netRc, netAfterStop, delay, appPc,
                   discCalls, hbPc, pollPc, psdConn, ackLog, ackPrev, discLog,
                   offlineCount, mockConnected, published_messages, mockLast, running,
                   shutdown_event, stopPc, reading, valid, sensor_type, validated,
                   config, reader_class, has_sensor, last_reading, error_count,
                   returned, odLog, will, sessionAs, hbOrphans>>

\* position after the entry for sensor readIdx: the next sensor, or read_all returns
\* and the publish loop begins
AfterRead == IF readIdx = NumSensors THEN "publish" ELSE "read"

\* A read_all whose except branch logs the error and stores no reading.
read_sensor_no_entry ==
    /\ loopPc = "read"
    /\ \E o \in ReadOutcomes :
          IF o.raised
          THEN /\ UNCHANGED readings
               /\ cycleLog' = Append(cycleLog, LogEntry("error", "read_all", readIdx))
          ELSE /\ readings' = (readIdx :> o.reading) @@ readings
               /\ cycleLog' = IF is_valid(o.reading) THEN cycleLog
                              ELSE Append(cycleLog, LogEntry("warning", "read_all", readIdx))
    /\ loopPc' = AfterRead
    /\ readIdx' = IF readIdx = NumSensors THEN 1 ELSE readIdx + 1
    /\ lastPub' = NoPublish
    /\ lastMsg' = NoMessage
    /\ lastWrite' = "none"
    /\ hbStart' = "none"
    /\ UNCHANGED <<mode, connected, reconnect_attempts, stop_event, on_connect_callback,
                   loop_running, session, netPc, netRc, netAfterStop, delay, appPc,
                   discCalls, hbPc, pollPc, psdConn, ackLog, ackPrev, discLog,
                   offlineCount, mockConnected, published_messages, mockLast, running,
                   shutdown_event, cycleBase, callLog, stopPc, reading, valid,
                   sensor_type, validated, config, reader_class, has_sensor,
                   last_reading, error_count, returned, odLog, will, sessionAs,
                   hbOrphans>>

\* SensorManager.read_all(), one turn of its loop: sensor.read(); the reading is stored
\* and a warning logged when it is not valid; when the read raised, the error is logged
\* and an error reading stored instead.
read_sensor ==
    /\ loopPc = "read"
    /\ \E o \in ReadOutcomes :
          IF o.raised
          THEN /\ readings' = (readIdx :> ErrorReading) @@ readings
               /\ cycleLog' = Append(cycleLog, LogEntry("error", "read_all", readIdx))
          ELSE /\ readings' = (readIdx :> o.reading) @@ readings
               /\ cycleLog' = IF is_valid(o.reading) THEN cycleLog
                              ELSE Append(cycleLog, LogEntry("warning", "read_all", readIdx))
    /\ loopPc' = AfterRead
    /\ readIdx' = IF readIdx = NumSensors THEN 1 ELSE readIdx + 1
    /\ lastPub' = NoPublish
    /\ lastMsg' = NoMessage
    /\ lastWrite' = "none"
    /\ hbStart' = "none"
    /\ UNCHANGED <<mode, connected, reconnect_attempts, stop_event, on_connect_callback,
                   loop_running, session, netPc, netRc, netAfterStop, delay, appPc,
                   discCalls, hbPc, pollPc, psdConn, ackLog, ackPrev, discLog,
                   offlineCount, mockConnected, published_messages, mockLast, running,
                   shutdown_event, cycleBase, callLog, stopPc, reading, valid,
                   sensor_type, validated, config, reader_class, has_sensor,
                   last_reading, error_count, returned, odLog, will, sessionAs,
                   hbOrphans>>

\* A publish loop that ends one reading early.
AfterPublish_early == IF readIdx >= NumSensors - 1 THEN "wait" ELSE "publish"

\* position after the turn of reading readIdx in the publish loop: the next reading,
\* or self.shutdown_event.wait(update_interval)
AfterPublish == IF readIdx = NumSensors THEN "wait" ELSE "publish"

\* A publish loop that passes every reading on, valid or not.
ReadingPublishable_any(r) == TRUE

\* if reading.is_valid(): (main.py:149)
ReadingPublishable(r) == is_valid(r)

\* _main_loop, one turn of  for sensor_id, reading in readings.items():  a valid
\* reading goes to _publish_sensor_reading, which returns with a warning when
\* is_connected() is false; an invalid reading is logged with a warning.  The loop
\* goes over the entries the dict has: an id without an entry has no turn.
main_loop_reading ==
    /\ loopPc = "publish"
    /\ IF readIdx \notin DOMAIN readings
       THEN /\ loopPc' = AfterPublish
            /\ UNCHANGED cycleLog
       ELSE IF ReadingPublishable(readings[readIdx])
       THEN IF mockConnected
            THEN /\ loopPc' = "pub_call"
                 /\ UNCHANGED cycleLog
            ELSE /\ loopPc' = AfterPublish
                 /\ cycleLog' = Append(cycleLog, LogEntry("warning", "publish", readIdx))
       ELSE /\ loopPc' = AfterPublish
            /\ cycleLog' = Append(cycleLog, LogEntry("warning", "main_loop", readIdx))
    /\ readIdx' = IF loopPc' = "pub_call" THEN readIdx
                  ELSE IF readIdx = NumSensors THEN 1 ELSE readIdx + 1
    /\ lastPub' = NoPublish
    /\ lastMsg' = NoMessage
    /\ lastWrite' = "none"
    /\ hbStart' = "none"
    /\ UNCHANGED <<mode, connected, reconnect_attempts, stop_event, on_connect_callback,
                   loop_running, session, netPc, netRc, netAfterStop, delay, appPc,
                   discCalls, hbPc, pollPc, psdConn, ackLog, ackPrev, discLog,
                   offlineCount, mockConnected, published_messages, mockLast, running,
                   shutdown_event, readings, cycleBase, callLog, stopPc, reading, valid,
                   sensor_type, validated, config, reader_class, has_sensor,
                   last_reading, error_count, returned, odLog, will, sessionAs,
                   hbOrphans>>

\* _publish_sensor_reading after its guard: reading.to_dict() and
\* self.mqtt_client.publish_sensor_data(sensor_id, data), here the mock's.
publish_sensor_reading ==
    /\ loopPc = "pub_call"
    /\ mockLast' = [op |-> "sensor_data", conn |-> mockConnected,
                    len |-> Len(published_messages), result |-> mockConnected]
    /\ published_messages' = MockPublished("sensor_data")
    /\ callLog' = Append(callLog, [sensor |-> readIdx, result |-> mockConnected])
    /\ loopPc' = AfterPublish
    /\ readIdx' = IF readIdx = NumSensors THEN 1 ELSE readIdx + 1
    /\ lastPub' = NoPublish
    /\ lastMsg' = NoMessage
    /\ lastWrite' = "none"
    /\ hbStart' = "none"
    /\ UNCHANGED <<mode, connected, reconnect_attempts, stop_event, on_connect_callback,
                   loop_running, session, netPc, netRc, netAfterStop, delay, appPc,
                   discCalls, hbPc, pollPc, psdConn, ackLog, ackPrev, discLog,
                   offlineCount, mockConnected, running, shutdown_event, readings,
                   cycleBase, cycleLog, stopPc, reading, valid, sensor_type, validated,
                   config, reader_class, has_sensor, last_reading, error_count,
                   returned, odLog, will, sessionAs, hbOrphans>>

\* A loop without the except branch: the exception ends the thread.
MainLoopRaises_uncaught ==
    /\ loopPc \in {"read", "publish", "pub_call"}
    /\ loopPc' = "done"
    /\ readIdx' = 1
    /\ lastPub' = NoPublish
    /\ lastMsg' = NoMessage
    /\ lastWrite' = "none"
    /\ hbStart' = "none"
    /\ UNCHANGED <<mode, connected, reconnect_attempts, stop_event, on_connect_callback,
                   loop_running, session, netPc, netRc, netAfterStop, delay, appPc,
                   discCalls, hbPc, pollPc, psdConn, ackLog, ackPrev, discLog,
                   offlineCount, mockConnected, published_messages, mockLast, running,
                   shutdown_event, readings, cycleBase, cycleLog, callLog, stopPc,
                   reading, valid, sensor_type, validated, config, reader_class,
                   has_sensor, last_reading, error_count, returned, odLog, will,
                   sessionAs, hbOrphans>>

\* except Exception as e:  a statement of the try block raised (the readers, the
\* readings and the loggers are whatever the deployment plugs in); the error is logged
\* and the loop goes to self.shutdown_event.wait(5).
MainLoopRaises ==
    /\ loopPc \in {"read", "publish", "pub_call"}
    /\ cycleLog' = Append(cycleLog, LogEntry("error", "main_loop", 0))
    /\ loopPc' = "err_wait"
    /\ readIdx' = 1
    /\ lastPub' = NoPublish
    /\ lastMsg' = NoMessage
    /\ lastWrite' = "none"
    /\ hbStart' = "none"
    /\ UNCHANGED <<mode, connected, reconnect_attempts, stop_event, on_connect_callback,
                   loop_running, session, netPc, netRc, netAfterStop, delay, appPc,
                   discCalls, hbPc, pollPc, psdConn, ackLog, ackPrev, discLog,
                   offlineCount, mockConnected, published_messages, mockLast, running,
                   shutdown_event, readings, cycleBase, callLog, stopPc, reading, valid,
                   sensor_type, validated, config, reader_class, has_sensor,
                   last_reading, error_count, returned, odLog, will, sessionAs,
                   hbOrphans>>

\* A wait the shutdown signal does not end (time.sleep in place of Event.wait).
WaitEndsOnShutdown_never == FALSE

\* threading.Event.wait(timeout) returns as soon as the event is set
WaitEndsOnShutdown == shutdown_event

\* self.shutdown_event.wait(update_interval) / wait(5) returns because the event is set
WaitInterrupted ==
    /\ loopPc \in {"wait", "err_wait"}
    /\ WaitEndsOnShutdown
    /\ loopPc' = "head"
    /\ lastPub' = NoPublish
    /\ lastMsg' = NoMessage
    /\ lastWrite' = "none"
    /\ hbStart' = "none"
    /\ UNCHANGED <<mode, connected, reconnect_attempts, stop_event, on_connect_callback,
                   loop_running, session, netPc, netRc, netAfterStop, delay, appPc,
                   discCalls, hbPc, pollPc, psdConn, ackLog, ackPrev, discLog,
                   offlineCount, mockConnected, published_messages, mockLast, running,
                   shutdown_event, readIdx, readings, cycleBase, cycleLog, callLog,
                   stopPc, reading, valid, sensor_type, validated, config, reader_class,
                   has_sensor, last_reading, error_count, returned, odLog, will,
                   sessionAs, hbOrphans>>

\* ... or because the timeout has run out
WaitTimeout ==
    /\ loopPc \in {"wait", "err_wait"}
    /\ loopPc' = "head"
    /\ lastPub' = NoPublish
    /\ lastMsg' = NoMessage
    /\ lastWrite' = "none"
    /\ hbStart' = "none"
    /\ UNCHANGED <<mode, connected, reconnect_attempts, stop_event, on_connect_callback,
                   loop_running, session, netPc, netRc, netAfterStop, delay, appPc,
                   discCalls, hbPc, pollPc, psdConn, ackLog, ackPrev, discLog,
                   offlineCount, mockConnected, published_messages, mockLast, running,
                   shutdown_event, readIdx, readings, cycleBase, cycleLog, callLog,
                   stopPc, reading, valid, sensor_type, validated, config, reader_class,
                   has_sensor, last_reading, error_count, returned, odLog, will,
                   sessionAs, hbOrphans>>

(***************************************************************************)
(* IoTSensorClient.stop(), statement by statement.  It is called by the    *)
(* signal handler and again by main()'s finally.                           *)
(***************************************************************************)
\* self.running = False
StopCall ==
    /\ mode = "app"
    /\ loopPc # "none"
    /\ stopPc = "idle"
    /\ running' = FALSE
    /\ stopPc' = "s_event"
    /\ lastPub' = NoPublish
    /\ lastMsg' = NoMessage
    /\ lastWrite' = "none"
    /\ hbStart' = "none"
    /\ UNCHANGED <<mode, connected, reconnect_attempts, stop_event, on_connect_callback,
                   loop_running, session, netPc, netRc, netAfterStop, delay, appPc,
                   discCalls, hbPc, pollPc, psdConn, ackLog, ackPrev, discLog,
                   offlineCount, mockConnected, published_messages, mockLast,
                   shutdown_event, loopPc, readIdx, readings, cycleBase, cycleLog,
                   callLog, reading, valid, sensor_type, validated, config,
                   reader_class, has_sensor, last_reading, error_count, returned, odLog,
                   will, sessionAs, hbOrphans>>

\* self.shutdown_event.set()
StopSetEvent ==
    /\ stopPc = "s_event"
    /\ shutdown_event' = TRUE
    /\ stopPc' = "s_disconnect"
    /\ lastPub' = NoPublish
    /\ lastMsg' = NoMessage
    /\ lastWrite' = "none"
    /\ hbStart' = "none"
    /\ UNCHANGED <<mode, connected, reconnect_attempts, stop_event, on_connect_callback,
                   loop_running, session, netPc, netRc, netAfterStop, delay, appPc,
                   discCalls, hbPc, pollPc, psdConn, ackLog, ackPrev, discLog,
                   offlineCount, mockConnected, published_messages, mockLast, running,
                   loopPc, readIdx, readings, cycleBase, cycleLog, callLog, reading,
                   valid, sensor_type, validated, config, reader_class, has_sensor,
                   last_reading, error_count, returned, odLog, will, sessionAs,
                   hbOrphans>>

\* self.mqtt_client.disconnect(): MockMQTTClient.disconnect
StopDisconnect ==
    /\ stopPc = "s_disconnect"
    /\ mockConnected' = FALSE
    /\ stopPc' = "s_join"
    /\ lastPub' = NoPublish
    /\ lastMsg' = NoMessage
    /\ lastWrite' = "none"
    /\ hbStart' = "none"
    /\ UNCHANGED <<mode, connected, reconnect_attempts, stop_event, on_connect_callback,
                   loop_running, session, netPc, netRc, netAfterStop, delay, appPc,
                   discCalls, hbPc, pollPc, psdConn, ackLog, ackPrev, discLog,
                   offlineCount, published_messages, mockLast, running, shutdown_event,
                   loopPc, readIdx, readings, cycleBase, cycleLog, callLog, reading,
                   valid, sensor_type, validated, config, reader_class, has_sensor,
                   last_reading, error_count, returned, odLog, will, sessionAs,
                   hbOrphans>>

\* self.main_loop_thread.join(timeout=10): the thread has ended or the timeout has run
\* out; stop() returns
StopJoin ==
    /\ stopPc = "s_join"
    /\ stopPc' = "idle"
    /\ lastPub' = NoPublish
    /\ lastMsg' = NoMessage
    /\ lastWrite' = "none"
    /\ hbStart' = "none"
    /\ UNCHANGED <<mode, connected, reconnect_attempts, stop_event, on_connect_callback,
                   loop_running, session, netPc, netRc, netAfterStop, delay, appPc,
                   discCalls, hbPc, pollPc, psdConn, ackLog, ackPrev, discLog,
                   offlineCount, mockConnected, published_messages, mockLast, running,
                   shutdown_event, loopPc, readIdx, readings, cycleBase, cycleLog,
                   callLog, reading, valid, sensor_type, validated, config,
                   reader_class, has_sensor, last_reading, error_count, returned, odLog,
                   will, sessionAs, hbOrphans>>

(***************************************************************************)
(* A SensorReading is made and asked is_valid().                           *)
(***************************************************************************)
CheckReading ==
    /\ mode = "sensor"
    /\ \E r \in AllReadings :
          /\ reading' = r
          /\ valid' = is_valid(r)
    /\ sensor_type' = "none"
    /\ validated' = FALSE
    /\ lastPub' = NoPublish
    /\ lastMsg' = NoMessage
    /\ lastWrite' = "none"
    /\ hbStart' = "none"
    /\ UNCHANGED <<mode, connected, reconnect_attempts, stop_event, on_connect_callback,
                   loop_running, session, netPc, netRc, netAfterStop, delay, appPc,
                   discCalls, hbPc, pollPc, psdConn, ackLog, ackPrev, discLog,
                   offlineCount, mockConnected, published_messages, mockLast, running,
                   shutdown_event, loopPc, readIdx, readings, cycleBase, cycleLog,
                   callLog, stopPc, config, reader_class, has_sensor, last_reading,
                   error_count, returned, odLog, will, sessionAs, hbOrphans>>

(***************************************************************************)
(* SensorReader.validate_reading (sensor_reader.py) against the range      *)
(* table SENSOR_RANGES of shared/constants.py.                             *)
(***************************************************************************)
\* the sensor types the range table has entries for
SensorTypes == {"DHT11", "DS18B20"}

\* SENSOR_RANGES[sensor_type]: field -> <<min, max>>, or <<>> when the table has no
\* range for the field
SENSOR_RANGES(type) ==
    IF type = "DHT11"
    THEN [temperature |-> <<0, 50>>, humidity |-> <<20, 90>>, pressure |-> <<>>]
    ELSE [temperature |-> <<-55, 125>>, humidity |-> <<>>, pressure |-> <<>>]

\* readings with values inside, on the edge of and outside the ranges
ValueReadings ==
    {SensorReading(t, h, p, e) :
        t \in {None, <<-60>>, <<0>>, <<22>>, <<50>>, <<150>>},
        h \in {None, <<10>>, <<60>>, <<90>>, <<95>>},
        p \in {None, <<1013>>},
        e \in {None, <<"error">>}}

\* A range test that takes the maximum itself as out of range (>= in place of >).
FieldInRange_below_max(field, range) ==
    \/ field = None
    \/ range = <<>>
    \/ (field[1] >= range[1] /\ field[1] < range[2])

\* if reading.<field> is not None: the value is neither below 'min' nor above 'max'
FieldInRange(field, range) ==
    \/ field = None
    \/ range = <<>>
    \/ ~(field[1] < range[1]) /\ ~(field[1] > range[2])

\* validate_reading(reading) of a reader of the given sensor type
validate_reading(type, r) ==
    IF ~is_valid(r)
    THEN FALSE
    ELSE LET ranges == SENSOR_RANGES(type) IN
         /\ FieldInRange(r.temperature, ranges.temperature)
         /\ FieldInRange(r.humidity, ranges.humidity)
         /\ FieldInRange(r.pressure, ranges.pressure)

\* A reading is made and a reader of some sensor type validates it.
ValidateReading ==
    /\ mode = "sensor"
    /\ \E r \in ValueReadings, type \in SensorTypes :
          /\ reading' = r
          /\ valid' = is_valid(r)
          /\ sensor_type' = type
          /\ validated' = validate_reading(type, r)
    /\ lastPub' = NoPublish
    /\ lastMsg' = NoMessage
    /\ lastWrite' = "none"
    /\ hbStart' = "none"
    /\ UNCHANGED <<mode, connected, reconnect_attempts, stop_event, on_connect_callback,
                   loop_running, session, netPc, netRc, netAfterStop, delay, appPc,
                   discCalls, hbPc, pollPc, psdConn, ackLog, ackPrev, discLog,
                   offlineCount, mockConnected, published_messages, mockLast, running,
                   shutdown_event, loopPc, readIdx, readings, cycleBase, cycleLog,
                   callLog, stopPc, config, reader_class, has_sensor, last_reading,
                   error_count, returned, odLog, will, sessionAs, hbOrphans>>


(***************************************************************************)
(* Inbound messages: MQTTClient._on_message, run by the network thread     *)
(* for a PUBLISH the broker delivers on the open session.  Topics are      *)
(* sequences of characters, so that 'config' in topic is the substring     *)
(* test the code makes.                                                    *)
(***************************************************************************)

\* MQTT_TOPICS['config'].format(client_id=self.client_id) for the client "p"
ConfigTopic == <<"p", "/", "c", "o", "n", "f", "i", "g">>

\* The topics of inbound messages: the client's configuration topic, the
\* configuration topic of another client (received under a wider subscription made
\* with subscribe()), and a topic without the word.
Topics == {ConfigTopic,
           <<"q", "/", "c", "o", "n", "f", "i", "g">>,
           <<"p", "/", "c", "m", "d">>}

\* Python's  sub in s  on strings
Contains(s, sub) ==
    \E i \in 1..(Len(s) - Len(sub) + 1) : SubSeq(s, i, i + Len(sub) - 1) = sub

\* if 'config' in topic
IsConfigMessage(topic) == Contains(topic, <<"c", "o", "n", "f", "i", "g">>)

\* main.py 69-71 sets the three callbacks together; a bare client has none.
on_message_callback == on_connect_callback

\* The decoded payload of a well-formed configuration message.
ConfigPayload == [update_interval |-> 10]

\* A handler that applies the payload to the configuration.
handle_config_update_applies(payload, cfg) ==
    [cfg EXCEPT !.update_interval = payload.update_interval]

\* _handle_config_update(payload): logs "Received configuration update" only.
handle_config_update(payload, cfg) == cfg

\* An _on_message whose except clause re-raises.
on_message_uncaught(topic, wellformed, raises) ==
    LET handled == wellformed /\ IsConfigMessage(topic)
        called == wellformed /\ on_message_callback
        fault == ~wellformed \/ (called /\ raises)
    IN  /\ mode = "real"
        /\ loop_running
        /\ netPc = "idle"
        /\ session = "open"
        /\ config' = IF handled THEN handle_config_update(ConfigPayload, config)
                     ELSE config
        /\ lastMsg' = [topic |-> topic, wellformed |-> wellformed,
                       config_handled |-> handled, callback_called |-> called,
                       logged_error |-> fault, propagated |-> fault]
        /\ lastPub' = NoPublish
        /\ lastWrite' = "none"
        /\ hbStart' = "none"
        /\ UNCHANGED <<mode, connected, reconnect_attempts, stop_event,
                       on_connect_callback, loop_running, session, netPc, netRc,
                       netAfterStop, delay, appPc, discCalls, hbPc, pollPc, psdConn,
                       ackLog, ackPrev, discLog, offlineCount, mockConnected,
                       published_messages, mockLast, running, shutdown_event, loopPc,
                       readIdx, readings, cycleBase, cycleLog, callLog, stopPc, reading,
                       valid, sensor_type, validated, reader_class, has_sensor,
                       last_reading, error_count, returned, odLog, will, sessionAs,
                       hbOrphans>>

\* _on_message(msg): json.loads(msg.payload.decode()) raises on a malformed payload,
\* before either handler is reached; every exception of the body, the callback's
\* included, is caught and logged (lines 288-289).
on_message(topic, wellformed, raises) ==
    LET handled == wellformed /\ IsConfigMessage(topic)
        called == wellformed /\ on_message_callback
        fault == ~wellformed \/ (called /\ raises)
    IN  /\ mode = "real"
        /\ loop_running
        /\ netPc = "idle"
        /\ session = "open"
        /\ config' = IF handled THEN handle_config_update(ConfigPayload, config)
                     ELSE config
        /\ lastMsg' = [topic |-> topic, wellformed |-> wellformed,
                       config_handled |-> handled, callback_called |-> called,
                       logged_error |-> fault, propagated |-> FALSE]
        /\ lastPub' = NoPublish
        /\ lastWrite' = "none"
        /\ hbStart' = "none"
        /\ UNCHANGED <<mode, connected, reconnect_attempts, stop_event,
                       on_connect_callback, loop_running, session, netPc, netRc,
                       netAfterStop, delay, appPc, discCalls, hbPc, pollPc, psdConn,
                       ackLog, ackPrev, discLog, offlineCount, mockConnected,
                       published_messages, mockLast, running, shutdown_event, loopPc,
                       readIdx, readings, cycleBase, cycleLog, callLog, stopPc, reading,
                       valid, sensor_type, validated, reader_class, has_sensor,
                       last_reading, error_count, returned, odLog, will, sessionAs,
                       hbOrphans>>

OnMessage ==
    \E topic \in Topics, wellformed \in BOOLEAN, raises \in BOOLEAN :
        on_message(topic, wellformed, raises)

(***************************************************************************)
(* One sensor reader, read repeatedly: DHT11Reader.read, DS18B20Reader.read*)
(* and MockSensorReader.read with their effects on _last_reading and       *)
(* _error_count.  The driver (or the random generator) is the environment. *)
(***************************************************************************)

\* What a driver or the random generator delivers: values that change between reads.
Temperatures == {<<21>>, <<22>>}

Humidities == {<<60>>}

\* return self._error_count < self._max_errors
is_healthy == error_count < max_errors

\* A read that fails: reading.error is set, self._error_count += 1, _last_reading is
\* not touched.
ReadFails(r) ==
    /\ error_count < MaxErrorCount
    /\ returned' = r
    /\ error_count' = error_count + 1
    /\ UNCHANGED last_reading

\* A read from the driver that succeeds: self._error_count = 0 and
\* self._last_reading = reading.
ReadSucceeds(r) ==
    /\ returned' = r
    /\ error_count' = 0
    /\ last_reading' = r

\* The branch taken without a driver ("Mock data for testing"): the reading gets
\* generated values and is returned; neither field of the reader is assigned.
ReadFallback(r) ==
    /\ returned' = r
    /\ UNCHANGED <<error_count, last_reading>>

\* DHT11Reader.read
DHT11Read ==
    /\ mode = "reader"
    /\ reader_class = "DHT11Reader"
    /\ IF has_sensor
       THEN \/ \E t \in Temperatures, h \in Humidities :
                  ReadSucceeds(SensorReading(t, h, None, None))
            \/ \E t \in Temperatures \cup {None}, h \in Humidities \cup {None} :
                  /\ (t = None \/ h = None)
                  /\ ReadFails(SensorReading(None, None, None, <<"error">>))
            \/ ReadFails(SensorReading(None, None, None, <<"error">>))
       ELSE \E t \in Temperatures, h \in Humidities :
                  ReadFallback(SensorReading(t, h, None, None))
    /\ lastPub' = NoPublish
    /\ lastMsg' = NoMessage
    /\ lastWrite' = "none"
    /\ hbStart' = "none"
    /\ UNCHANGED <<mode, connected, reconnect_attempts, stop_event, on_connect_callback,
                   loop_running, session, netPc, netRc, netAfterStop, delay, appPc,
                   discCalls, hbPc, pollPc, psdConn, ackLog, ackPrev, discLog,
                   offlineCount, mockConnected, published_messages, mockLast, running,
                   shutdown_event, loopPc, readIdx, readings, cycleBase, cycleLog,
                   callLog, stopPc, reading, valid, sensor_type, validated, config,
                   reader_class, has_sensor, odLog, will, sessionAs, hbOrphans>>

\* DS18B20Reader.read
DS18B20Read ==
    /\ mode = "reader"
    /\ reader_class = "DS18B20Reader"
    /\ IF has_sensor
       THEN \/ \E t \in Temperatures :
                  ReadSucceeds(SensorReading(t, None, None, None))
            \/ ReadFails(SensorReading(None, None, None, <<"error">>))
       ELSE \E t \in Temperatures :
                  ReadFallback(SensorReading(t, None, None, None))
    /\ lastPub' = NoPublish
    /\ lastMsg' = NoMessage
    /\ lastWrite' = "none"
    /\ hbStart' = "none"
    /\ UNCHANGED <<mode, connected, reconnect_attempts, stop_event, on_connect_callback,
                   loop_running, session, netPc, netRc, netAfterStop, delay, appPc,
                   discCalls, hbPc, pollPc, psdConn, ackLog, ackPrev, discLog,
                   offlineCount, mockConnected, published_messages, mockLast, running,
                   shutdown_event, loopPc, readIdx, readings, cycleBase, cycleLog,
                   callLog, stopPc, reading, valid, sensor_type, validated, config,
                   reader_class, has_sensor, odLog, will, sessionAs, hbOrphans>>

\* MockSensorReader.read: the reading always has values; with the simulated error
\* (5 %) it also has reading.error and the counter is incremented, otherwise the
\* counter is decremented, not below 0, and the reading is kept.
MockRead ==
    /\ mode = "reader"
    /\ reader_class = "MockSensorReader"
    /\ \E t \in Temperatures, h \in Humidities :
          \/ ReadFails(SensorReading(t, h, None, <<"error">>))
          \/ /\ returned' = SensorReading(t, h, None, None)
             /\ error_count' = IF error_count - 1 > 0 THEN error_count - 1 ELSE 0
             /\ last_reading' = SensorReading(t, h, None, None)
    /\ lastPub' = NoPublish
    /\ lastMsg' = NoMessage
    /\ lastWrite' = "none"
    /\ hbStart' = "none"
    /\ UNCHANGED <<mode, connected, reconnect_attempts, stop_event, on_connect_callback,
                   loop_running, session, netPc, netRc, netAfterStop, delay, appPc,
                   discCalls, hbPc, pollPc, psdConn, ackLog, ackPrev, discLog,
                   offlineCount, mockConnected, published_messages, mockLast, running,
                   shutdown_event, loopPc, readIdx, readings, cycleBase, cycleLog,
                   callLog, stopPc, reading, valid, sensor_type, validated, config,
                   reader_class, has_sensor, odLog, will, sessionAs, hbOrphans>>

Read == DHT11Read \/ DS18B20Read \/ MockRead
Next ==
    \/ Connect
    \/ OnConnect
    \/ subscribe
    \/ PublishOnline
    \/ start_heartbeat
    \/ OnDisconnect
    \/ disconnect_callback
    \/ OnMessage
    \/ attempt_reconnect
    \/ Reconnect
    \/ HeartbeatLoop
    \/ HeartbeatCheck
    \/ publish_heartbeat
    \/ DisconnectCall
    \/ DisconnectJoin
    \/ DisconnectCheck
    \/ PublishOffline
    \/ DisconnectLoopStop
    \/ DisconnectClose
    \/ publish_sensor_data
    \/ PublishSensorData
    \/ MockConnect
    \/ MockDisconnect
    \/ MockPublishSensorData
    \/ MockPublishStatus
    \/ AppStart
    \/ MainLoopTest
    \/ read_sensor
    \/ main_loop_reading
    \/ publish_sensor_reading
    \/ MainLoopRaises
    \/ WaitInterrupted
    \/ WaitTimeout
    \/ StopCall
    \/ StopSetEvent
    \/ StopDisconnect
    \/ StopJoin
    \/ CheckReading
    \/ ValidateReading
    \/ DHT11Read
    \/ DS18B20Read
    \/ MockRead

Spec == Init /\ [][Next]_vars

\* the steps of the heartbeat thread
HeartbeatStep == HeartbeatLoop \/ HeartbeatCheck \/ publish_heartbeat

\* the steps of the poll thread that need nothing but the thread itself to run (not
\* the end of a timeout, not an exception)
PollStep ==
    \/ MainLoopTest
    \/ read_sensor
    \/ main_loop_reading
    \/ publish_sensor_reading
    \/ WaitInterrupted

\* Threads that can run do run: the heartbeat thread and the poll thread are scheduled.
FairSpec == Spec /\ WF_vars(HeartbeatStep) /\ WF_vars(PollStep)

(***************************************************************************)
(* Properties                                                              *)
(***************************************************************************)
\* position of the first e in s, 0 when it is not there
Pos(s, e) == IF e \in Range(s) THEN CHOOSE i \in 1..Len(s) : s[i] = e /\ \A j \in 1..(i - 1) : s[j] # e
             ELSE 0

Count(s, e) == Cardinality({i \in 1..Len(s) : s[i] = e})

\* C1: a publish_sensor_data call that finds the client not connected returns false
\* and submits nothing to the transport; the mock client's publish_sensor_data then
\* returns false and leaves published_messages as it was.
C1_SensorDataWhileDisconnected ==
    /\ (lastPub.kind = "sensor_data" /\ ~lastPub.callConn)
          => (~lastPub.submitted /\ ~lastPub.result)
    /\ (mockLast.op = "sensor_data" /\ ~mockLast.conn)
          => (~mockLast.result /\ Len(published_messages) = mockLast.len)

C1_Witness ==
    /\ lastPub.kind = "sensor_data"
    /\ ~lastPub.callConn
    /\ ~lastPub.result
    /\ loop_running

\* The reconnect budget is used up: max_reconnect_attempts attempts were made, none is
\* in progress and none awaits its acknowledgment.
Exhausted ==
    /\ reconnect_attempts = max_reconnect_attempts
    /\ netPc # "backoff"
    /\ session # "pending"

\* C2: once max_reconnect_attempts reconnect attempts in a row have failed, the client
\* is not connected, and every step other than a manual connect() leaves it so: no
\* reconnect attempt starts (on a later unsolicited disconnect or otherwise) and
\* connected stays false.
C2_NoReconnectAfterMax ==
    [][Exhausted => /\ ~connected
                    /\ (session' # "pending" => Exhausted' /\ ~connected')]_vars

C2_Witness ==
    /\ Exhausted
    /\ netPc = "od_decide"
    /\ netRc # 0
    /\ ~stop_event

\* C3: a disconnect event reported after disconnect() has set the stop flag, clean or
\* not, starts no reconnect attempt: reconnect_attempts is not incremented and the
\* network thread does not go into the backoff sleep that precedes the reconnect call.
C3_StopSuppressesReconnect ==
    [][(netPc = "od_decide" /\ netAfterStop)
          => (reconnect_attempts' = reconnect_attempts /\ netPc' # "backoff")]_vars

C3_Witness ==
    /\ netPc = "od_decide"
    /\ netAfterStop
    /\ netRc # 0
    /\ reconnect_attempts < max_reconnect_attempts

\* C4 (as claimed): for every successful connect acknowledgment there is at most one
\* subscribe and one 'online' status publish, exactly one of each once the heartbeat
\* has been started, and the first heartbeat of that connection comes after both.
C4_OnlineBeforeFirstTick ==
    /\ Count(ackLog, "subscribe") <= 1
    /\ Count(ackLog, "online") <= 1
    /\ "heartbeat" \in Range(ackLog)
          => (Count(ackLog, "subscribe") = 1 /\ Count(ackLog, "online") = 1)
    /\ "tick" \in Range(ackLog)
          => /\ 0 < Pos(ackLog, "subscribe")
             /\ Pos(ackLog, "subscribe") < Pos(ackLog, "tick")
             /\ 0 < Pos(ackLog, "online")
             /\ Pos(ackLog, "online") < Pos(ackLog, "tick")

\* C5: while the network thread sleeps before reconnect attempt n (n the counter after
\* its increment), 1 <= n <= max_reconnect_attempts and the delay is min(30, 2^n):
\* 2, 4, 8, 16 and then 30.
C5_BackoffDelay ==
    netPc = "backoff"
       => /\ reconnect_attempts \in 1..max_reconnect_attempts
          /\ delay = CASE reconnect_attempts = 1 -> 2
                       [] reconnect_attempts = 2 -> 4
                       [] reconnect_attempts = 3 -> 8
                       [] reconnect_attempts = 4 -> 16
                       [] OTHER -> 30

C5_Witness ==
    /\ netPc = "backoff"
    /\ reconnect_attempts = 5
    /\ delay = 30

\* C6 (as claimed): after a disconnect() call has returned the client is not connected
\* and a publish call returns false.
C6_DisconnectedAfterDisconnect ==
    (discCalls > 0 /\ appPc = "idle")
       => (~connected /\ (lastPub.kind # "none" => ~lastPub.result))

\* rank of a step in the order disconnect() is to take them
DiscRank(e) ==
    CASE e = "stop" -> 1
      [] e = "join" -> 2
      [] e = "status" -> 3
      [] e = "offline" -> 4
      [] e = "loop_stop" -> 5
      [] e = "close" -> 6

DiscLogInOrder ==
    /\ \A i \in 1..Len(discLog) : \A j \in 1..Len(discLog) :
          i < j => DiscRank(discLog[i]) < DiscRank(discLog[j])
    /\ discLog # <<>> => discLog[1] = "stop"
    /\ "offline" \in Range(discLog) => "status" \in Range(discLog)
    /\ "close" \in Range(discLog) => "loop_stop" \in Range(discLog)
    /\ (appPc = "idle" /\ discCalls > 0) => "close" \in Range(discLog)

\* C7: disconnect() takes its steps in the order stop flag, heartbeat join, status
\* publish, loop_stop, close; it calls the status publish exactly when it reads
\* connected as true, and it joins the heartbeat thread exactly when there is one; so
\* an 'offline' status is submitted before the I/O loop is stopped and the session
\* closed.
C7_DisconnectOrder ==
    /\ []DiscLogInOrder
    /\ [][(appPc = "d_check" /\ appPc' # "d_check")
             => (("status" \in Range(discLog')) <=> connected)]_vars
    /\ [][(appPc = "d_join" /\ appPc' # "d_join")
             => (("join" \in Range(discLog')) <=> (hbPc # "none"))]_vars

C7_Witness ==
    /\ appPc = "idle"
    /\ discLog = <<"stop", "join", "status", "offline", "loop_stop", "close">>

\* C8 (as claimed): all the disconnect() calls of a run together submit the 'offline'
\* status at most once.
C8_OfflineAtMostOnce == offlineCount <= 1

\* this step put an 'offline' status, an 'online' status or a first heartbeat on the
\* transport
NewSubmission ==
    \/ offlineCount' # offlineCount
    \/ /\ Len(ackLog') > Len(ackLog)
       /\ ackLog'[Len(ackLog')] \in {"online", "tick"}

\* C9: _publish returns false and submits nothing when it reads connected as false;
\* returns false when json.dumps raises, when client.publish raises and when it
\* returns an error code; returns true exactly when it was connected and the
\* transport accepted the message.  A message reaches the transport only within the
\* publish call that carries it.
C9_PublishFailsFast ==
    /\ [](lastPub.kind # "none"
            => /\ (~lastPub.conn => (~lastPub.submitted /\ ~lastPub.result))
               /\ (lastPub.outcome \in {"err", "raise", "ser"} => ~lastPub.result)
               /\ (lastPub.result <=> (lastPub.conn /\ lastPub.outcome = "ok"))
               /\ (lastPub.result => lastPub.submitted))
    /\ [][NewSubmission => lastPub'.submitted]_vars

C9_Witness ==
    /\ lastPub.kind = "sensor_data"
    /\ lastPub.conn
    /\ lastPub.outcome = "err"
    /\ lastPub.submitted
    /\ ~lastPub.result

\* the log without the heartbeat thread's entry
AckSteps == SelectSeq(ackLog, LAMBDA e : e # "tick")

\* C10: while and after _on_connect processes a successful acknowledgment, connected
\* is true and reconnect_attempts is 0, whatever they were before; when it is done it
\* has subscribed, published 'online', started the heartbeat and then, if the connect
\* callback is set, called it once.
C10_ConnectAck ==
    /\ [](netPc \in {"oc_subscribe", "oc_status", "oc_heartbeat"}
            => (connected /\ reconnect_attempts = 0))
    /\ []("heartbeat" \in Range(ackLog)
            => AckSteps = IF on_connect_callback
                          THEN <<"subscribe", "online", "heartbeat", "callback">>
                          ELSE <<"subscribe", "online", "heartbeat">>)
    /\ [][(netPc = "oc_heartbeat" /\ netPc' = "idle")
             => (connected' /\ reconnect_attempts' = 0)]_vars

C10_Witness ==
    /\ netPc = "idle"
    /\ connected
    /\ ackPrev > 0
    /\ "callback" \in Range(ackLog)


\* C11: the step in which _on_connect processes an acknowledgment with rc # 0 (the
\* broker refuses the session) finds connected false and leaves it false, leaves
\* reconnect_attempts as it was, starts none of the success steps (subscribe, status
\* publish, heartbeat start, connect callback), publishes nothing, leaves the
\* heartbeat thread as it was and starts no reconnect attempt: the network thread is
\* idle again.
C11_FailedAck ==
    [][(session = "pending" /\ session' = "refused")
          => /\ ~connected /\ ~connected'
             /\ reconnect_attempts' = reconnect_attempts
             /\ ackLog' = ackLog
             /\ ackLog' = <<>>
             /\ lastPub' = NoPublish
             /\ hbPc' = hbPc
             /\ netPc' = "idle"
             /\ delay' = 0]_vars

C11_Witness ==
    /\ session = "refused"
    /\ netPc = "idle"
    /\ reconnect_attempts > 0
    /\ ~connected
    /\ HeartbeatAlive

\* C12: the heartbeat thread, once started, goes on across unsolicited disconnects and
\* reconnects: it ends only when it finds the stop flag set.  It calls
\* publish_heartbeat only in an iteration that read connected as true, and a heartbeat
\* is submitted only when _publish read connected as true.  Once disconnect() has set
\* the stop flag the thread eventually ends, and a thread that has ended publishes
\* nothing.
C12_HeartbeatLoop ==
    /\ [][(HeartbeatAlive /\ ~HeartbeatAlive') => stop_event]_vars
    /\ [][(hbPc # "publish" /\ hbPc' = "publish") => connected]_vars
    /\ [][lastPub'.kind = "heartbeat" => (hbPc = "publish" /\ hbPc' = "loop")]_vars
    /\ []((lastPub.kind = "heartbeat" /\ lastPub.submitted) => lastPub.conn)
    /\ (stop_event /\ HeartbeatAlive) ~> ~HeartbeatAlive

C12_Witness ==
    /\ ackPrev > 0
    /\ "tick" \in Range(ackLog)
    /\ lastPub.kind = "heartbeat"
    /\ lastPub.submitted

\* C13 (as claimed): when the stop flag is set while _attempt_reconnect waits out its
\* backoff delay, the wait ends without the reconnect call: the step that ends the
\* wait opens no new session.
C13_BackoffInterruptible ==
    [][(netPc = "backoff" /\ stop_event /\ netPc' # "backoff") => session' # "pending"]_vars

\* read_all logged an error for sensor i: its read raised
ReadRaised(i) == \E k \in 1..Len(cycleLog) : cycleLog[k] = LogEntry("error", "read_all", i)

\* read_all has returned and the cycle has not raised since
ReadAllReturned == loopPc \in {"publish", "pub_call", "wait"}

\* C14: whatever each sensor's read does (a valid reading, an error reading, an
\* exception), every turn of read_all's loop adds the entry of its sensor, so the dict
\* read_all returns has exactly the registered sensor ids as its keys; the entry of a
\* sensor whose read raised is an error reading (an error and no values, not valid).
C14_ReadAllKeys ==
    /\ ReadAllReturned => DOMAIN readings = Sensors
    /\ loopPc = "read" => DOMAIN readings = 1..(readIdx - 1)
    /\ \A i \in DOMAIN readings :
          ReadRaised(i) => /\ readings[i].error # None
                           /\ readings[i].temperature = None
                           /\ readings[i].humidity = None
                           /\ readings[i].pressure = None

C14_Witness ==
    /\ ReadAllReturned
    /\ ReadRaised(1)
    /\ ~ReadRaised(2)
    /\ readings[2].error = None
    /\ readings[2].temperature # None
    /\ DOMAIN readings = Sensors

\* the sensors whose reading of this cycle is valid: no error and a value
ValidSensors ==
    {i \in DOMAIN readings :
        /\ readings[i].error = None
        /\ \/ readings[i].temperature # None
           \/ readings[i].humidity # None
           \/ readings[i].pressure # None}

\* number of publish_sensor_data calls of this cycle for sensor i
Calls(i) == Cardinality({k \in 1..Len(callLog) : callLog[k].sensor = i})

\* the sensors whose message the mock broker accepted in this cycle
PublishedSensors == {callLog[k].sensor : k \in {j \in 1..Len(callLog) : callLog[j].result}}

\* C15: when a poll cycle has run to its end with the mock broker connected, the
\* broker's list has grown by exactly N - k messages, N the number of registered
\* sensors and k the number of invalid readings: one message for each sensor with a
\* valid reading and none for a sensor with an invalid one.
C15_PublishedPerCycle ==
    (loopPc = "wait" /\ mockConnected)
       => /\ Len(published_messages) - cycleBase
                = NumSensors - Cardinality(Sensors \ ValidSensors)
          /\ PublishedSensors = ValidSensors
          /\ \A i \in Sensors : Calls(i) = IF i \in ValidSensors THEN 1 ELSE 0
          /\ \A k \in (cycleBase + 1)..Len(published_messages) :
                published_messages[k] = "sensor_data"

C15_Witness ==
    /\ loopPc = "wait"
    /\ mockConnected
    /\ Cardinality(ValidSensors) = NumSensors - 1
    /\ Len(published_messages) - cycleBase = NumSensors - 1
    /\ ReadRaised(1)

\* number of warnings this cycle logged about sensor i
Warnings(i) ==
    Cardinality({k \in 1..Len(cycleLog) :
                    cycleLog[k].level = "warning" /\ cycleLog[k].sensor = i})

\* C16 (as claimed): when a poll cycle has run to its end, it has logged exactly one
\* warning for each sensor whose reading is invalid.
C16_OneWarningPerInvalid ==
    loopPc = "wait" => \A i \in Sensors \ ValidSensors : Warnings(i) = 1

\* C17 (as claimed): when a poll cycle has run to its end, publish_sensor_data has
\* been called exactly once for every valid reading and never for an invalid one.
C17_CalledOncePerValid ==
    loopPc = "wait" => \A i \in Sensors : Calls(i) = IF i \in ValidSensors THEN 1 ELSE 0

\* _publish_sensor_reading found is_connected() false at the turn of sensor i
Skipped(i) == \E k \in 1..Len(cycleLog) : cycleLog[k] = LogEntry("warning", "publish", i)

\* C17 (amended): in every cycle publish_sensor_data is called at most once for a
\* sensor and only for a sensor whose reading of this cycle is valid; when the cycle
\* has run to its end, it has been called exactly once for every valid reading whose
\* turn found is_connected() true and not at all for one whose turn found it false
\* (a warning is logged instead, and only when the client is not connected).
C17_CalledOnceWhenConnected ==
    /\ [](\A i \in Sensors : /\ Calls(i) <= 1
                              /\ Calls(i) = 1 => (i \in ValidSensors /\ ~Skipped(i)))
    /\ [](loopPc = "wait"
            => \A i \in ValidSensors : Calls(i) = IF Skipped(i) THEN 0 ELSE 1)
    /\ [][(loopPc = "publish" /\ Len(cycleLog') > Len(cycleLog)
              /\ cycleLog'[Len(cycleLog')].by = "publish") => ~mockConnected]_vars
    /\ [][(loopPc = "publish" /\ loopPc' = "pub_call") => mockConnected]_vars

C17_Witness ==
    /\ loopPc = "wait"
    /\ \E i \in ValidSensors : Skipped(i)
    /\ \E i \in ValidSensors : Calls(i) = 1
    /\ \E i \in Sensors \ ValidSensors : Calls(i) = 0

\* the poll thread is inside the try block of a cycle
InCycle == loopPc \in {"read", "publish", "pub_call"}

\* C18: a cycle ends in the interval wait or, when a statement of it raises, with the
\* error logged in the 5-second wait, never with the end of the loop; both waits lead
\* back to the loop's test, which ends the loop only when stop() has cleared running
\* or set the shutdown event and begins a further cycle otherwise.
C18_ExceptionKeepsLoop ==
    /\ [][(InCycle /\ ~InCycle') => loopPc' \in {"wait", "err_wait"}]_vars
    /\ [][(InCycle /\ loopPc' = "err_wait")
             => cycleLog'[Len(cycleLog')] = LogEntry("error", "main_loop", 0)]_vars
    /\ [][(loopPc \in {"wait", "err_wait"} /\ loopPc' # loopPc) => loopPc' = "head"]_vars
    /\ [][(loopPc = "head" /\ loopPc' # "head")
             => loopPc' = IF running /\ ~shutdown_event THEN "read" ELSE "done"]_vars
    /\ [][loopPc = "done" => loopPc' = "done"]_vars

C18_Witness ==
    /\ loopPc = "head"
    /\ cycleLog # <<>>
    /\ cycleLog[Len(cycleLog)] = LogEntry("error", "main_loop", 0)
    /\ Len(callLog) > 0
    /\ running
    /\ ~shutdown_event

\* C19: once stop() has set the shutdown event the poll thread eventually ends,
\* whether it is in a cycle or in one of its waits (which the event ends, timeout or
\* not), and the loop's test begins no cycle when it finds the event set.
C19_ShutdownEndsLoop ==
    /\ (shutdown_event /\ loopPc # "none") ~> (loopPc = "done")
    /\ [][(loopPc = "head" /\ shutdown_event) => loopPc' \in {"head", "done"}]_vars
    /\ [][(loopPc # "read" /\ loopPc' = "read") => ~shutdown_event]_vars

C19_Witness ==
    /\ loopPc = "done"
    /\ shutdown_event
    /\ stopPc = "s_join"
    /\ Len(published_messages) > 0

\* C20: for every reading, is_valid() returns true exactly when error is None and at
\* least one of temperature, humidity and pressure is not None.
C20_IsValid ==
    reading # NoReading
       => (valid <=> /\ reading.error = None
                     /\ \/ reading.temperature # None
                        \/ reading.humidity # None
                        \/ reading.pressure # None)

C20_Witness ==
    /\ reading # NoReading
    /\ valid
    /\ reading.temperature = None
    /\ reading.humidity = None
    /\ reading.pressure # None

\* a present field of the reading lies outside the range the table has for it
OutOfRange ==
    LET ranges == SENSOR_RANGES(sensor_type) IN
    \/ /\ reading.temperature # None
       /\ ranges.temperature # <<>>
       /\ \/ reading.temperature[1] < ranges.temperature[1]
          \/ reading.temperature[1] > ranges.temperature[2]
    \/ /\ reading.humidity # None
       /\ ranges.humidity # <<>>
       /\ \/ reading.humidity[1] < ranges.humidity[1]
          \/ reading.humidity[1] > ranges.humidity[2]
    \/ /\ reading.pressure # None
       /\ ranges.pressure # <<>>
       /\ \/ reading.pressure[1] < ranges.pressure[1]
          \/ reading.pressure[1] > ranges.pressure[2]

MessageProcessed == lastMsg # NoMessage

\* C22: every well-formed message on the client's configuration topic is passed to
\* the configuration-update handler; every other well-formed message is passed to
\* the generic message callback (when one is registered) and not to the
\* configuration-update handler.
C22_MessageRouting ==
    (MessageProcessed /\ lastMsg.wellformed) =>
        IF lastMsg.topic = ConfigTopic
        THEN lastMsg.config_handled
        ELSE /\ on_message_callback => lastMsg.callback_called
             /\ ~lastMsg.config_handled

\* C23: a message with a malformed payload reaches neither the configuration-update
\* handler nor the message callback; no exception leaves _on_message, whether it
\* comes from the decoding or from the message callback.
C23_MalformedDropped ==
    MessageProcessed =>
        /\ ~lastMsg.wellformed =>
              (~lastMsg.config_handled /\ ~lastMsg.callback_called)
        /\ ~lastMsg.propagated

C23_Witness ==
    /\ MessageProcessed
    /\ ~lastMsg.wellformed
    /\ lastMsg.logged_error
    /\ on_message_callback

\* C24: in every read of every reader class, _last_reading becomes the returned
\* reading when that reading is valid and is left unchanged when it is not.
C24_LastReadingOnSuccess ==
    [][Read => IF is_valid(returned') THEN last_reading' = returned'
               ELSE last_reading' = last_reading]_vars

\* C25: every read increases _error_count by exactly one, leaves it unchanged or
\* resets it to 0, and is_healthy() is true exactly when _error_count < max_errors.
C25_ErrorCountMonotonic ==
    [][/\ Read => error_count' \in {error_count + 1, error_count, 0}
       /\ is_healthy' <=> (error_count' < max_errors)]_vars

\* The steps of an _on_disconnect up to and including the callback.
DisconnectedThenCallback ==
    IF on_disconnect_callback THEN <<"connected_false", "callback">>
    ELSE <<"connected_false">>

\* C26: in an _on_disconnect, connected is set to false first, then the disconnect
\* callback fires, then the reconnect attempt (increment, backoff sleep, reconnect
\* call) begins; connected is false from the first step to the end of the sleep.
C26_UnsolicitedDisconnectOrder ==
    /\ netPc \in {"od_callback", "od_decide", "backoff"} => ~connected
    /\ netPc = "od_callback" => odLog = <<"connected_false">>
    /\ netPc = "od_decide" => odLog = DisconnectedThenCallback
    /\ netPc = "backoff" =>
          /\ odLog = Append(DisconnectedThenCallback, "attempt_reconnect")
          /\ reconnect_attempts > 0
          /\ delay > 0

C26_Witness ==
    /\ netPc = "backoff"
    /\ on_disconnect_callback
    /\ ~stop_event
    /\ netRc # 0
    /\ odLog = <<"connected_false", "callback", "attempt_reconnect">>
    /\ ~connected

\* C27: while the network thread sleeps in the backoff of _attempt_reconnect, the
\* publish calls of the poll thread and of the heartbeat thread can take their next
\* step (none waits for the sleep to end), and every publish call that returns then
\* returns false.
C27_PublishNotBlockedByBackoff ==
    netPc = "backoff" =>
        /\ pollPc = "idle" => ENABLED publish_sensor_data
        /\ pollPc = "publish" => ENABLED PublishSensorData
        /\ hbPc = "publish" => ENABLED publish_heartbeat
        /\ lastPub # NoPublish => (~lastPub.result /\ ~lastPub.submitted)

C27_Witness ==
    /\ netPc = "backoff"
    /\ lastPub.kind = "sensor_data"
    /\ ~lastPub.result

\* A step changes one of the connection-state fields.
ConnectionStateChanges ==
    connected' # connected \/ reconnect_attempts' # reconnect_attempts

\* C28: connected and reconnect_attempts are assigned only by the callbacks
\* _on_connect, _on_disconnect and _attempt_reconnect running on the network I/O
\* thread; the poll thread, the heartbeat thread and the thread in disconnect() never
\* assign them.
C28_WrittenByNetworkThread ==
    /\ [](lastWrite \in {"none", "network"})
    /\ [][ConnectionStateChanges => lastWrite' = "network"]_vars

\* C28 (amended): the two fields are assigned only by _on_connect, _on_disconnect and
\* _attempt_reconnect; these run on the network I/O thread, except that the thread
\* calling disconnect() runs _on_disconnect inside client.disconnect(), after
\* loop_stop() has ended the network thread; no two threads assign them concurrently.
C28_WrittenByCallbacks ==
    /\ [](lastWrite = "app" =>
             /\ ~loop_running
             /\ netPc = "idle"
             /\ discLog # <<>> /\ discLog[Len(discLog)] = "close"
             /\ ~connected)
    /\ [][ConnectionStateChanges => lastWrite' # "none"]_vars
    /\ [][(mode = "real" /\ lastWrite' # "none") =>
             \/ OnConnect \/ OnDisconnect \/ attempt_reconnect
             \/ DisconnectClose]_vars

C28_Witness ==
    /\ lastWrite = "app"
    /\ stop_event
    /\ ~connected

\* C29: the last will (retained 'offline' / 'unexpected_disconnect' on the status
\* topic) is registered before the first connect() and never changes; every connect()
\* and every reconnect presents the same client id and that will.
C29_LastWillFixed ==
    mode = "real" =>
        /\ will = LastWill
        /\ will.retain /\ will.status = "offline"
        /\ sessionAs # NoSession =>
              sessionAs = [client_id |-> client_id, will |-> LastWill]
        /\ session # "closed" => sessionAs # NoSession

C29_Witness ==
    /\ session = "pending"
    /\ reconnect_attempts > 0
    /\ sessionAs = [client_id |-> client_id, will |-> LastWill]

\* C30: processing an inbound message, on the configuration topic or any other,
\* changes neither connected, reconnect_attempts nor the stop flag, nor the client's
\* configuration, nor the agent's running flag, shutdown event and poll interval.
C30_MessageChangesNothing ==
    [][OnMessage =>
          /\ lastMsg' # NoMessage
          /\ UNCHANGED <<connected, reconnect_attempts, stop_event, session>>
          /\ config' = config
          /\ config'.update_interval = DefaultConfig.update_interval
          /\ UNCHANGED <<running, shutdown_event, loopPc>>]_vars

C30_Witness ==
    /\ MessageProcessed
    /\ lastMsg.topic = ConfigTopic
    /\ lastMsg.config_handled
    /\ lastMsg.callback_called
    /\ connected
    /\ config = DefaultConfig

\* C31: 0 <= reconnect_attempts <= max_reconnect_attempts in every state; the counter
\* changes only by an increment of one made by _attempt_reconnect while it is strictly
\* below the maximum, or by the reset to 0 of a successful connect acknowledgment.
C31_AttemptsBounded ==
    /\ [](reconnect_attempts \in 0..max_reconnect_attempts)
    /\ [][reconnect_attempts' # reconnect_attempts =>
             \/ /\ reconnect_attempts' = reconnect_attempts + 1
                /\ reconnect_attempts < max_reconnect_attempts
                /\ netPc = "od_decide" /\ netPc' = "backoff"
             \/ /\ reconnect_attempts' = 0
                /\ session = "pending" /\ session' = "open"
                /\ connected']_vars

C31_Witness ==
    /\ reconnect_attempts = max_reconnect_attempts
    /\ netPc = "backoff"
    /\ delay = Backoff(max_reconnect_attempts)

\* The number of heartbeat loops running.
HeartbeatLoops == (IF ThreadRunning(hbPc) THEN 1 ELSE 0) + hbOrphans

\* C32: at most one heartbeat loop runs at any time; a _start_heartbeat that finds the
\* heartbeat thread alive starts no thread.
C32_OneHeartbeatLoop ==
    /\ HeartbeatLoops <= 1
    /\ hbStart = "kept" => (ThreadRunning(hbPc) /\ hbOrphans = 0)

C32_Witness ==
    /\ hbStart = "kept"
    /\ ackPrev > 0
    /\ connected
    /\ HeartbeatLoops = 1

\* C33: once the 'offline' status of a disconnect() has been submitted, no sensor-data
\* message and no heartbeat is submitted to the transport.
C33_OfflineIsLast ==
    (offlineCount > 0 /\ lastPub.kind \in {"sensor_data", "heartbeat"}) =>
        ~lastPub.submitted

\* C34: once disconnect() has been invoked (the stop flag is set), connected never
\* goes from false to true and no 'online' status is submitted.
C34_NoConnectAfterDisconnect ==
    [][stop_event =>
          /\ connected' => connected
          /\ "online" \in Range(ackLog') => "online" \in Range(ackLog)]_vars

\* C35: a disconnect reported with the clean code sets connected to false and fires
\* the disconnect callback but starts no reconnect attempt, whatever the stop flag; a
\* reconnect attempt starts only when the code is not clean and the stop flag is not
\* set.
C35_CleanDisconnectNoReconnect ==
    /\ []((netPc = "od_decide" /\ netRc = 0) =>
             (~connected /\ odLog = DisconnectedThenCallback))
    /\ [][(netPc = "od_decide" /\ netRc = 0) =>
             /\ netPc' # "backoff"
             /\ reconnect_attempts' = reconnect_attempts
             /\ delay' = 0]_vars
    /\ [][(netPc # "backoff" /\ netPc' = "backoff") =>
             (netPc = "od_decide" /\ netRc # 0 /\ ~stop_event)]_vars

C35_Witness ==
    /\ netPc = "od_decide"
    /\ netRc = 0
    /\ ~stop_event
    /\ on_disconnect_callback
    /\ odLog = <<"connected_false", "callback">>
    /\ ~connected
    /\ reconnect_attempts < max_reconnect_attempts
====
